---------------------------- MODULE Spec2Model ----------------------------
(***************************************************************************)
(* Model of the mhc-backend API: the crisis classifier and safety router   *)
(* of the chat route (src/routes/generate.js, src/unnamed/part_002), the   *)
(* conversation logger (src/lib/firebase.js), the context assembler, the   *)
(* session-token middleware, the community post routes                     *)
(* (src/routes/post.js) and the bulk deletes (src/unnamed/part_001).       *)
(*                                                                         *)
(* Text is modelled as a sequence of one-character strings, so that        *)
(* matching, lower-casing, trimming and splitting are computed character   *)
(* by character as the JavaScript does.                                    *)
(***************************************************************************)
EXTENDS Integers, Sequences, FiniteSets, TLC

VARIABLES
    \* --- classifier harness (detectCrisis applied to one message)
    cVariant,        \* which detectCrisis implementation is applied
    cMessage,        \* the message it is applied to
    cPc,             \* "call" before detectCrisis has run, "return" after
    cResult          \* what detectCrisis returned

VARIABLES
    \* --- the document store
    users,           \* collection users: uid -> profile document, or NoDoc
    moodEntries,     \* collection moodEntries, in document order
    \* --- context assembler harness (fetchUserContext applied to one user)
    xVariant,        \* which fetchUserContext implementation is applied
    xUserId,         \* its argument
    xFault,          \* what the store does during the call
    xPc,             \* "call" before fetchUserContext has run, "return" after
    xResult          \* the context it returned

VARIABLES
    \* --- the chat route POST /api/generate
    chatVariant,     \* which implementation of the route is deployed
    req,             \* the chat request being handled: inputs, locals, response
    turns,           \* number of chat requests received so far
    conversations,   \* collection conversations, in order of creation
    tasks            \* summary updates running in the background

VARIABLES
    \* --- the session-token middleware verifyToken
    auth,            \* the request passing through the middleware
    authUsers        \* uids of the accounts in the authentication directory

VARIABLES
    \* --- the bulk deletes DELETE /conversations and DELETE /journals
    chatConversations,  \* collection chatConversations, in document order
    journalEntries,     \* collection journalEntries, in document order
    bulk                \* the bulk delete being handled

VARIABLES
    \* --- the community post routes
    post,            \* the post document, or NoPost
    postReqs,        \* the requests on the post, by arrival number
    clock,           \* Date.now()
    postResp         \* the answer to the request on the post that finished last

VARIABLES
    \* --- the journal routes and PUT /profile
    journal,         \* the journal request handled last and its answer
    profileReq       \* the PUT /profile request being handled

VARIABLES
    \* --- DELETE /account and the activities collection
    account,         \* the DELETE /account request being handled
    activities       \* collection activities, in document order

VARIABLES
    \* --- POST /save-conversation and the activities routes
    saves,           \* the save-conversation requests, and the documents added
    day,             \* today's date
    todayResp        \* the answer to the activities request handled last

classifyVars == <<cVariant, cMessage, cPc, cResult>>

authVars == <<auth, authUsers>>

bulkVars == <<chatConversations, journalEntries, bulk>>

postVars == <<post, postReqs, clock, postResp>>

chatVars == <<chatVariant, req, turns, conversations, tasks>>

storeVars == <<users, moodEntries>>

journalVars == <<journal>>

profileVars == <<profileReq>>

accountVars == <<account, activities>>

saveVars == <<saves>>

activityVars == <<day, todayResp>>

contextVars == <<xVariant, xUserId, xFault, xPc, xResult>>

vars == <<cVariant, cMessage, cPc, cResult, users, moodEntries,
          xVariant, xUserId, xFault, xPc, xResult,
          chatVariant, req, turns, conversations, tasks,
          auth, authUsers, chatConversations, journalEntries, bulk,
          post, postReqs, clock, postResp, journal, profileReq,
          account, activities, saves, day, todayResp>>

-----------------------------------------------------------------------------
(* Characters                                                              *)

LowerCase == <<"a","b","c","d","e","f","g","h","i","j","k","l","m",
               "n","o","p","q","r","s","t","u","v","w","x","y","z">>
UpperCase == <<"A","B","C","D","E","F","G","H","I","J","K","L","M",
               "N","O","P","Q","R","S","T","U","V","W","X","Y","Z">>
Digits == {"0","1","2","3","4","5","6","7","8","9"}

Range(s) == { s[i] : i \in DOMAIN s }

\* String.prototype.toLowerCase, and the folding of the regex flag /i
toLowerCase(s) ==
    [i \in DOMAIN s |->
        IF \E k \in DOMAIN UpperCase : UpperCase[k] = s[i]
        THEN LowerCase[CHOOSE k \in DOMAIN UpperCase : UpperCase[k] = s[i]]
        ELSE s[i]]

\* \w of a JavaScript regular expression: [A-Za-z0-9_]
WordChars == Range(LowerCase) \cup Range(UpperCase) \cup Digits \cup {"_"}

IsWordChar(c) == c \in WordChars

\* Is the character at position i of s a word character (FALSE outside s)
WordAt(s, i) == i \in DOMAIN s /\ IsWordChar(s[i])

\* \b between positions i and i+1 of s (0 <= i <= Len(s))
WordBoundary(s, i) == WordAt(s, i) # WordAt(s, i + 1)

\* The literal p occurs in s at position i, compared character by character
LiteralAt(s, p, i) ==
    /\ i >= 1
    /\ i + Len(p) - 1 <= Len(s)
    /\ \A k \in 1..Len(p) : s[i + k - 1] = p[k]

\* String.prototype.includes
includes(s, p) == \E i \in 1..(Len(s) + 1) : LiteralAt(s, p, i)

-----------------------------------------------------------------------------
(* Crisis phrases                                                          *)

phrase ==
    [ suicide |-> <<"s","u","i","c","i","d","e">>,
      kill_myself |-> <<"k","i","l","l"," ","m","y","s","e","l","f">>,
      end_my_life |-> <<"e","n","d"," ","m","y"," ","l","i","f","e">>,
      not_worth_living |-> <<"n","o","t"," ","w","o","r","t","h"," ","l","i","v","i","n","g">>,
      self_harm |-> <<"s","e","l","f"," ","h","a","r","m">>,
      self_dash_harm |-> <<"s","e","l","f","-","h","a","r","m">>,
      selfharm |-> <<"s","e","l","f","h","a","r","m">>,
      cut_myself |-> <<"c","u","t"," ","m","y","s","e","l","f">>,
      hurt_myself |-> <<"h","u","r","t"," ","m","y","s","e","l","f">>,
      want_to_die |-> <<"w","a","n","t"," ","t","o"," ","d","i","e">>,
      better_off_dead |-> <<"b","e","t","t","e","r"," ","o","f","f"," ","d","e","a","d">>,
      no_point_living |-> <<"n","o"," ","p","o","i","n","t"," ","l","i","v","i","n","g">>,
      give_up_on_life |-> <<"g","i","v","e"," ","u","p"," ","o","n"," ","l","i","f","e">>,
      end_it_all |-> <<"e","n","d"," ","i","t"," ","a","l","l">>,
      take_my_life |-> <<"t","a","k","e"," ","m","y"," ","l","i","f","e">>,
      can_t_go_on |-> <<"c","a","n","'","t"," ","g","o"," ","o","n">>,
      cant_go_on |-> <<"c","a","n","t"," ","g","o"," ","o","n">>,
      self_destruct |-> <<"s","e","l","f","-","d","e","s","t","r","u","c","t">>,
      no_reason_to_live |-> <<"n","o"," ","r","e","a","s","o","n"," ","t","o"," ","l","i","v","e">>,
      hopeless_about_life |-> <<"h","o","p","e","l","e","s","s"," ","a","b","o","u","t"," ","l","i","f","e">>,
      give_up |-> <<"g","i","v","e"," ","u","p">>,
      hopeless |-> <<"h","o","p","e","l","e","s","s">> ]

\* The four implementations of the chat route in the repository
Variants == {"generate_1", "generate_2", "generate_3", "part_002"}

\* The alternatives of crisisPattern, optional parts expanded
crisisPattern1 ==
    { phrase.suicide, phrase.kill_myself, phrase.end_my_life, phrase.not_worth_living, phrase.self_harm,
      phrase.self_dash_harm, phrase.cut_myself, phrase.hurt_myself, phrase.want_to_die,
      phrase.better_off_dead, phrase.no_point_living, phrase.give_up_on_life, phrase.end_it_all,
      phrase.take_my_life, phrase.can_t_go_on }

\* self[- ]?harm
crisisPattern2 ==
    { phrase.suicide, phrase.kill_myself, phrase.end_my_life, phrase.not_worth_living, phrase.selfharm,
      phrase.self_harm, phrase.self_dash_harm, phrase.cut_myself, phrase.hurt_myself, phrase.want_to_die,
      phrase.better_off_dead, phrase.no_point_living, phrase.give_up_on_life, phrase.end_it_all,
      phrase.take_my_life, phrase.can_t_go_on }

\* can'?t go on
crisisPattern3 ==
    { phrase.suicide, phrase.kill_myself, phrase.end_my_life, phrase.not_worth_living, phrase.self_harm,
      phrase.self_dash_harm, phrase.cut_myself, phrase.hurt_myself, phrase.want_to_die,
      phrase.better_off_dead, phrase.no_point_living, phrase.give_up_on_life, phrase.end_it_all,
      phrase.take_my_life, phrase.self_destruct, phrase.can_t_go_on, phrase.cant_go_on,
      phrase.no_reason_to_live, phrase.hopeless_about_life }

crisisKeywords ==
    { phrase.suicide, phrase.kill_myself, phrase.end_my_life, phrase.not_worth_living, phrase.self_harm,
      phrase.cut_myself, phrase.hurt_myself, phrase.want_to_die, phrase.better_off_dead,
      phrase.no_point_living, phrase.give_up, phrase.hopeless, phrase.cant_go_on, phrase.end_it_all,
      phrase.take_my_life, phrase.self_destruct }

\* The phrases configured in each implementation
Phrases(v) ==
    CASE v = "generate_1" -> crisisPattern1
      [] v = "generate_2" -> crisisPattern2
      [] v = "generate_3" -> crisisPattern3
      [] v = "part_002"   -> crisisKeywords

\* RegExp.prototype.test for /\b(p1|p2|...)\b/i : some start position has a
\* word boundary before it, one alternative matching there with case folded
\* (the alternatives are written in lower case), and a word boundary right
\* after the match.
RegexTest(pattern, message) ==
    LET folded == toLowerCase(message) IN
    \E i \in 1..(Len(message) + 1) :
        /\ WordBoundary(message, i - 1)
        /\ \E p \in pattern :
              /\ LiteralAt(folded, p, i)
              /\ WordBoundary(message, i + Len(p) - 1)

\* part_002: lowerMessage.includes(keyword) for some keyword
SubstringTest(keywords, message) ==
    LET lowerMessage == toLowerCase(message) IN
    \E keyword \in keywords : includes(lowerMessage, keyword)

\* A classifier that compares without folding case (mutant of detectCrisis)
detectCrisisCaseSensitive(v, message) ==
    IF v = "part_002"
    THEN \E keyword \in crisisKeywords : includes(message, keyword)
    ELSE \E i \in 1..(Len(message) + 1) :
            /\ WordBoundary(message, i - 1)
            /\ \E p \in Phrases(v) :
                  /\ LiteralAt(message, p, i)
                  /\ WordBoundary(message, i + Len(p) - 1)

detectCrisis(v, message) ==
    IF v = "part_002"
    THEN SubstringTest(crisisKeywords, message)
    ELSE RegexTest(Phrases(v), message)

-----------------------------------------------------------------------------
(* Messages: concatenations of a few fragments                             *)

frag ==
    [ hopeless |-> <<"h","o","p","e","l","e","s","s">>,
      ly |-> <<"l","y">>,
      about_life |-> <<" ","a","b","o","u","t"," ","l","i","f","e">>,
      suicide |-> <<"s","u","i","c","i","d","e">>,
      s |-> <<"s">>,
      want_to_die |-> <<"I"," ","W","a","n","t"," ","T","o"," ","D","i","e">>,
      space |-> <<" ">>,
      bang |-> <<"!">>,
      give_up |-> <<"g","i","v","e"," ","u","p">>,
      cant_go_on |-> <<"c","a","n","t"," ","g","o"," ","o","n">>,
      ok |-> <<"o","k">>,
      i_feel_hopeless |-> <<"i"," ","f","e","e","l"," ","h","o","p","e","l","e","s","s">> ]

Fragments == { frag.hopeless, frag.ly, frag.about_life, frag.suicide, frag.s, frag.want_to_die,
               frag.space, frag.bang, frag.give_up, frag.cant_go_on, frag.ok }

MaxPieces == 3

RECURSIVE Concat(_)
Concat(pieces) ==
    IF pieces = <<>> THEN <<>> ELSE Head(pieces) \o Concat(Tail(pieces))

Messages == { Concat(ps) : ps \in UNION { [1..n -> Fragments] : n \in 0..MaxPieces } }

-----------------------------------------------------------------------------
(* Classifier harness                                                      *)

Classify ==
    /\ cPc = "call"
    /\ cPc' = "return"
    /\ cResult' = detectCrisis(cVariant, cMessage)
    /\ UNCHANGED <<cVariant, cMessage, storeVars, contextVars, chatVars, authVars,
                   bulkVars, postVars,
                   journalVars, profileVars, accountVars, saveVars, activityVars>>

-----------------------------------------------------------------------------
(* The store and the context assembler                                     *)

\* JavaScript undefined, where a string is expected
Undefined == "undefined"

\* A document that does not exist (snapshot.exists is false)
NoDoc == [exists |-> FALSE, name |-> <<>>, wellnessSummary |-> ""]

\* The user ids that appear in requests and in the store
KnownIds == {"u1", "u2"}

Friend == <<"F","r","i","e","n","d">>

n_ann_lee == <<"A","n","n"," ","L","e","e">>

\* Profile documents.  Names are as PUT /profile stores them (trimmed); the
\* empty name stands for a profile without a name (undefined and "" are
\* both falsy in `if (userData.name)`), and the summary "" for a profile
\* without one.
UserDocs ==
    {NoDoc} \cup [exists : {TRUE}, name : { <<>>, n_ann_lee, <<"B","o">> },
                  wellnessSummary : {"", "s0"}]

\* Dates and timestamps are ISO strings; the model keeps their order only:
\* 1..MaxTime, and 0 for a missing (falsy) one.  A record without date and
\* without timestamp is a malformed record.
MaxTime == 2

MaxMoods == 2

MoodDocs ==
    [userId : KnownIds, date : 0..MaxTime, timestamp : {0, MaxTime},
     mood : {5}, note : {"n"}]

\* What the store does during one call
Faults == {"ok", "uninitialised", "profile_read_fails", "mood_query_fails"}

\* fullName.split(' ')[0]
RECURSIVE splitFirst(_)
splitFirst(name) ==
    IF name = <<>> \/ Head(name) = " "
    THEN <<>>
    ELSE <<Head(name)>> \o splitFirst(Tail(name))

\* A query that forgets the filter (mutant of where)
whereUnfiltered(coll, userId) == coll

\* .where('userId', '==', userId) over the collection, in document order
RECURSIVE where(_, _)
where(coll, userId) ==
    IF coll = <<>> THEN <<>>
    ELSE IF Head(coll).userId = userId
         THEN <<Head(coll)>> \o where(Tail(coll), userId)
         ELSE where(Tail(coll), userId)

\* .limit(n) and .slice(0, n)
limit(s, n) == IF Len(s) <= n THEN s ELSE SubSeq(s, 1, n)

moodQueryLimit == 5

recentMoodCount == 3

\* a.timestamp || a.date (|| '' in generate_3): 0 stands for '' and for
\* undefined
sortKey(d) == IF d.timestamp # 0 THEN d.timestamp ELSE d.date

\* generate_2 calls localeCompare on (b.timestamp || b.date): undefined has
\* no such method and the comparator throws a TypeError
noKey(v, d) == v = "generate_2" /\ sortKey(d) = 0

\* The key as the argument of localeCompare: undefined is compared as the
\* text "undefined", which collates after every ISO date; '' before
argKey(v, d) == IF noKey(v, d) THEN MaxTime + 1 ELSE sortKey(d)

\* The comparator (a, b) => keyB.localeCompare(keyA), called with a and b:
\* does it return a negative number, which puts a before b
comesFirst(v, a, b) == argKey(v, b) < argKey(v, a)

\* Array.prototype.sort as Node runs it on a short array: the length of the
\* initial run, found by comparing each element with the one before it
RECURSIVE runLength(_, _, _, _)
runLength(v, arr, idx, descending) ==
    IF idx > Len(arr) THEN Len(arr)
    ELSE IF comesFirst(v, arr[idx], arr[idx - 1]) = descending
         THEN runLength(v, arr, idx + 1, descending)
         ELSE idx - 1

reverse(arr) == [i \in DOMAIN arr |-> arr[Len(arr) + 1 - i]]

\* The binary search for the place of pivot in sorted[left+1 .. right]; the
\* comparator is called with (pivot, sorted[mid]) and throws when the key
\* of its second argument is undefined
RECURSIVE search(_, _, _, _, _)
search(v, sorted, pivot, left, right) ==
    IF left >= right THEN [pos |-> left, threw |-> FALSE]
    ELSE LET mid == left + ((right - left) \div 2) IN
         IF noKey(v, sorted[mid + 1]) THEN [pos |-> left, threw |-> TRUE]
         ELSE IF comesFirst(v, pivot, sorted[mid + 1])
              THEN search(v, sorted, pivot, left, mid)
              ELSE search(v, sorted, pivot, mid + 1, right)

\* Binary insertion of arr[start], arr[start + 1], ... into the sorted
\* elements before them
RECURSIVE insertFrom(_, _)
insertFrom(v, st) ==
    IF st.threw \/ st.start > Len(st.arr) THEN st
    ELSE LET pivot == st.arr[st.start]
             found == search(v, st.arr, pivot, 0, st.start - 1)
             moved == SubSeq(st.arr, 1, found.pos) \o <<pivot>> \o
                      SubSeq(st.arr, found.pos + 1, st.start - 1) \o
                      SubSeq(st.arr, st.start + 1, Len(st.arr))
         IN insertFrom(v, [arr |-> IF found.threw THEN st.arr ELSE moved,
                           start |-> st.start + 1, threw |-> found.threw])

\* .sort(comparator): the sorted documents, or threw when the comparator
\* threw.  A strictly descending initial run is reversed in place.
sort(v, docs) ==
    IF Len(docs) < 2 THEN [arr |-> docs, start |-> 1, threw |-> FALSE]
    ELSE LET descending == comesFirst(v, docs[2], docs[1])
             run == runLength(v, docs, 3, descending)
             compared == IF run < Len(docs) THEN run ELSE Len(docs) - 1
             head == SubSeq(docs, 1, run)
             rest == SubSeq(docs, run + 1, Len(docs))
         IN IF \E i \in 1..compared : noKey(v, docs[i])
            THEN [arr |-> docs, start |-> 1, threw |-> TRUE]
            ELSE insertFrom(v, [arr |-> (IF descending THEN reverse(head) ELSE head) \o rest,
                                start |-> run + 1, threw |-> FALSE])

\* `- Date: ${date}, Mood: ${mood}/10, Note: "${note}"`, one line per entry
formatMoods(docs) ==
    [i \in DOMAIN docs |->
        [date |-> docs[i].date, mood |-> docs[i].mood, note |-> docs[i].note]]

\* recentMoods is a fixed text or the formatted lines
MoodText(t) == [text |-> t, lines |-> <<>>]

MoodLines(ls) == [text |-> "", lines |-> ls]

Context(name, recentMoods, wellnessSummary) ==
    [name |-> name, recentMoods |-> recentMoods,
     wellnessSummary |-> wellnessSummary]

\* A fetchUserContext without its first line (mutant of skipsStore)
skipsStoreNever(userId) == FALSE

\* if (!userId || userId === 'anonymous') return the default context
skipsStore(userId) == userId \in {"", Undefined, "anonymous"}

\* What the catch of fetchUserContext returns
errorContext == Context(Friend, MoodText("Error fetching data."), "")

\* generate.js 480-530 (second implementation) and 1179-1235 (third); the
\* first implementation of the route calls the same function.  getFirestore
\* throws when the store is not initialised, so `if (!db)` is never taken.
fetchUserContext(v, userId, fault, usersColl, moodColl) ==
    IF skipsStore(userId)
    THEN Context(Friend, MoodText(""), "")
    ELSE IF fault # "ok"
    THEN errorContext
    ELSE
      LET userDoc == IF userId \in DOMAIN usersColl THEN usersColl[userId] ELSE NoDoc
          name == IF userDoc.exists /\ userDoc.name # <<>>
                  THEN splitFirst(userDoc.name) ELSE Friend
          wellnessSummary == IF userDoc.exists THEN userDoc.wellnessSummary ELSE ""
          moodQuery == limit(where(moodColl, userId), moodQueryLimit)
          sortedDocs == sort(v, moodQuery)
      IN IF moodQuery = <<>>
         THEN Context(name, MoodText("No recent mood logs."), wellnessSummary)
         ELSE IF sortedDocs.threw
         THEN errorContext
         ELSE Context(name,
                      MoodLines(formatMoods(limit(sortedDocs.arr, recentMoodCount))),
                      wellnessSummary)

RECURSIVE SeqsUpTo(_, _)
SeqsUpTo(S, n) ==
    IF n = 0 THEN { <<>> }
    ELSE SeqsUpTo(S, n - 1) \cup
         { Append(s, x) : s \in { t \in SeqsUpTo(S, n - 1) : Len(t) = n - 1 }, x \in S }

\* A longer mood history of u1: the entry of time k carries k as its mood;
\* entries of even time have a timestamp (and an older date), those of odd
\* time only a date
MaxStored == 6

MoodAt(k) ==
    [userId |-> "u1", date |-> IF k % 2 = 0 THEN 1 ELSE k,
     timestamp |-> IF k % 2 = 0 THEN k ELSE 0, mood |-> k, note |-> "n"]

\* The sequences of up to n different elements of S: the documents of the
\* collection in the order in which the query returns them
RECURSIVE DistinctSeqs(_, _)
DistinctSeqs(S, n) ==
    IF n = 0 THEN { <<>> }
    ELSE LET shorter == DistinctSeqs(S, n - 1) IN
         shorter \cup
         UNION { { Append(s, x) : x \in S \ Range(s) } :
                 s \in { t \in shorter : Len(t) = n - 1 } }

FetchUserContext ==
    /\ xPc = "call"
    /\ xPc' = "return"
    /\ xResult' = fetchUserContext(xVariant, xUserId, xFault, users, moodEntries)
    /\ UNCHANGED <<xVariant, xUserId, xFault, storeVars, classifyVars, chatVars,
                   authVars, bulkVars, postVars,
                   journalVars, profileVars, accountVars, saveVars, activityVars>>

-----------------------------------------------------------------------------
(* The chat route                                                          *)


\* Messages of chat requests: none, harmless, a longer word around a phrase,
\* a phrase of every implementation, a phrase of part_002 only
ChatMessages ==
    { <<>>, frag.ok, frag.hopeless \o frag.ly, frag.want_to_die, frag.i_feel_hopeless }

\* Replies of the completion service
t_try == <<"T","r","y">>

LLMTexts == { <<" ","o","k"," ">>, t_try }

\* Summaries the completion service writes
SummaryTexts == {"s1", "s2"}

\* What the chat requests of the model carry besides the text: nothing, or
\* facialEmotion
Extras == {"none", "facial"}

activityKeywords(v) ==
    CASE v = "generate_1" ->
           { <<"b","r","e","a","t","h","i","n","g">>,
             <<"e","x","e","r","c","i","s","e">>,
             <<"a","c","t","i","v","i","t","y">>,
             <<"j","o","u","r","n","a","l">>,
             <<"r","e","l","a","x">>,
             <<"m","e","d","i","t","a","t","i","o","n">>,
             <<"t","r","y">>,
             <<"c","o","p","i","n","g">> }
      [] v = "generate_2" ->
           { <<"b","r","e","a","t","h","i","n","g">>,
             <<"m","e","d","i","t","a","t","i","o","n">>,
             <<"e","x","e","r","c","i","s","e">>,
             <<"j","o","u","r","n","a","l">>,
             <<"r","e","l","a","x">>,
             <<"a","c","t","i","v","i","t","y">>,
             <<"t","r","y"," ","t","h","i","s">> }
      [] v = "generate_3" ->
           { <<"a","c","t","i","v","i","t">>,
             <<"e","x","e","r","c","i","s","e">>,
             <<"b","r","e","a","t","h","i","n","g">>,
             <<"m","e","d","i","t","a","t","i","o","n">>,
             <<"r","e","l","a","x","a","t","i","o","n">>,
             <<"p","r","a","c","t","i","c","e">>,
             <<"t","r","y">>,
             <<"s","u","g","g","e","s","t">>,
             <<"h","e","l","p"," ","y","o","u">> }
      [] v = "part_002" -> {}

mentionsActivities(v, aiResponse) ==
    \E keyword \in activityKeywords(v) : includes(toLowerCase(aiResponse), keyword)

\* String.prototype.trim
RECURSIVE trimStart(_)
trimStart(s) == IF s # <<>> /\ Head(s) = " " THEN trimStart(Tail(s)) ELSE s

RECURSIVE trimEnd(_)
trimEnd(s) ==
    IF s # <<>> /\ s[Len(s)] = " " THEN trimEnd(SubSeq(s, 1, Len(s) - 1)) ELSE s

trim(s) == trimEnd(trimStart(s))

\* The fixed supportive replies (their opening words)
crisisReply(v) ==
    IF v \in {"generate_1", "generate_2"}
    THEN <<"I","'","m"," ","r","e","a","l","l","y"," ","g","l","a","d">>
    ELSE <<"I","'","m"," ","r","e","a","l","l","y"," ",
           "c","o","n","c","e","r","n","e","d">>

\* crisisResponse of every implementation
crisisResponse(v) ==
    [reply |-> crisisReply(v), crisis |-> TRUE, timestamp |-> "now",
     helplines |-> [india |-> "1800-599-0019"]]

\* The response object of the normal path; JSON drops buttons: undefined
normalResponse(v, aiResponse) ==
    IF mentionsActivities(v, aiResponse)
    THEN [reply |-> aiResponse, crisis |-> FALSE, timestamp |-> "now",
          buttons |-> "Explore Activities"]
    ELSE [reply |-> aiResponse, crisis |-> FALSE, timestamp |-> "now"]

Resp(status, body) == [status |-> status, body |-> body]

NoResp == Resp(0, [error |-> ""])

DefaultContext == Context(Friend, MoodText("No recent data"), "")

ReqIdle ==
    [pc |-> "idle", message |-> <<>>, messages |-> <<>>, userId |-> "anonymous",
     extras |-> "none", userContext |-> DefaultContext, llmHistory |-> <<>>,
     llmOk |-> FALSE, llmText |-> <<>>, aiResponse |-> <<>>, logOk |-> FALSE,
     logged |-> 0,
     llmCalls |-> 0, contextCalls |-> 0, summaryCalls |-> 0, resp |-> NoResp]

Msg(role, content) == [role |-> role, content |-> content]

\* messages of the request body: absent, a previous assistant turn, or (for
\* part_002, which passes it on as it is) the history already extended with
\* the current message
Histories(v, message) ==
    { <<>>, <<Msg("assistant", frag.ok)>> } \cup
    (IF v = "part_002"
     THEN { <<Msg("assistant", frag.ok), Msg("user", message)>> } ELSE {})

\* userId of the request body
UserIdInputs == {Undefined, "", "u1"}

\* What the store does while the chat route reads the context
ChatFaults == {"ok", "profile_read_fails"}

enhancedMessage(v, message, extras) ==
    CASE extras = "multimodal" -> message \o <<"[","t","r","a","n","s","c","r","i","p","t","]">>
      [] extras = "facial"     -> message \o <<"[","f","a","c","i","a","l","]">>
      [] OTHER                 -> message

fullConversation(v, message, messages, extras) ==
    IF v = "part_002"
    THEN messages
    ELSE Append(messages, Msg("user", enhancedMessage(v, message, extras)))

\* What generateResponse returns for the text of the completion service
responseText(v, text) ==
    IF v \in {"generate_1", "generate_2"} THEN trim(text) ELSE text

\* A logConversation that never sets the crisis flag (mutant of
\* logConversation)
logConversationUnflagged(coll, userId, inputMessage, outputResponse, crisis, ok) ==
    IF ok
    THEN Append(coll, [userId |-> userId, inputMessage |-> inputMessage,
                       outputResponse |-> outputResponse, crisis |-> FALSE])
    ELSE coll

\* lib/firebase.js logConversation: one add to conversations; a store error
\* is caught and nothing is written
logConversation(coll, userId, inputMessage, outputResponse, crisis, ok) ==
    IF ok
    THEN Append(coll, [userId |-> userId, inputMessage |-> inputMessage,
                       outputResponse |-> outputResponse, crisis |-> crisis])
    ELSE coll

\* A logConversation whose catch rethrows (mutant of logConversationThrows)
logConversationRethrows(ok) == ~ok

\* lib/firebase.js logConversation: getFirestore and add are inside the try,
\* the catch only logs, so the awaited promise never rejects
logConversationThrows(ok) == FALSE

\* The catch of router.post('/')
somethingWentWrong == Resp(500, [error |-> "Something went wrong"])

\* Does the route call updateUserSummary after a normal turn
callsUpdateUserSummary(v, userId) ==
    CASE v = "generate_1" -> TRUE
      [] v = "generate_2" -> userId # "anonymous"
      [] v = "generate_3" -> userId \notin {"", "anonymous"}
      [] v = "part_002"   -> FALSE

\* Does updateUserSummary reach its completion call (generate_2 has no guard
\* of its own; generate_1 calls the function the file defines last)
summaryStarts(v, userId) ==
    IF v = "generate_2" THEN TRUE ELSE userId \notin {"", "anonymous"}

\* A route that awaits updateUserSummary (mutant of awaitsUpdateUserSummary)
awaitsUpdateUserSummaryAlways(v) == TRUE

\* Does the route await updateUserSummary before res.json: no
\* implementation does, the promise only gets a .catch that logs
awaitsUpdateUserSummary(v) == FALSE

MaxTurns == 1

\* A record logged by an earlier turn
oldRecord ==
    [userId |-> "u2", inputMessage |-> frag.ok, outputResponse |-> t_try,
     crisis |-> FALSE]

\* router.post('/') up to its first await
Start(message, messages, userIdIn, extras) ==
    /\ req.pc = "idle"
    /\ turns < MaxTurns
    /\ turns' = turns + 1
    /\ LET userId == IF userIdIn = Undefined THEN "anonymous" ELSE userIdIn
           in == [ReqIdle EXCEPT !.message = message, !.messages = messages,
                                 !.userId = userId, !.extras = extras]
           history == fullConversation(chatVariant, message, messages, extras)
       IN req' =
            IF message = <<>>
            THEN [in EXCEPT !.pc = "done",
                            !.resp = Resp(400, [error |-> "Message is required"])]
            ELSE IF detectCrisis(chatVariant, message)
            THEN [in EXCEPT !.pc = "crisis"]
            ELSE IF chatVariant # "part_002"
            THEN [in EXCEPT !.pc = "context", !.contextCalls = 1]
            ELSE IF history = <<>>
            THEN \* messages[messages.length - 1] is undefined: generateResponse throws
                 [in EXCEPT !.pc = "done", !.resp = somethingWentWrong]
            ELSE [in EXCEPT !.pc = "generate", !.llmHistory = history,
                            !.llmCalls = 1]
    /\ UNCHANGED <<chatVariant, conversations, tasks, storeVars, classifyVars, contextVars, authVars, bulkVars, postVars,
                   journalVars, profileVars, accountVars, saveVars, activityVars>>

\* await logConversation(...); return res.json(crisisResponse)
CrisisLog(ok) ==
    /\ req.pc = "crisis"
    /\ conversations' = logConversation(conversations, req.userId, req.message,
                                        crisisResponse(chatVariant).reply, TRUE, ok)
    /\ req' = [req EXCEPT !.pc = "done", !.logOk = ok,
                          !.logged = IF ok THEN @ + 1 ELSE @,
                          !.resp = IF logConversationThrows(ok)
                                   THEN somethingWentWrong
                                   ELSE Resp(200, crisisResponse(chatVariant))]
    /\ UNCHANGED <<chatVariant, turns, tasks, storeVars, classifyVars, contextVars, authVars, bulkVars, postVars,
                   journalVars, profileVars, accountVars, saveVars, activityVars>>

\* await fetchUserContext(userId), then generateResponse up to its await
FetchContext(fault) ==
    /\ req.pc = "context"
    /\ req' = [req EXCEPT
                 !.pc = "generate",
                 !.userContext = fetchUserContext(chatVariant, req.userId, fault,
                                                  users, moodEntries),
                 !.llmHistory = fullConversation(chatVariant, req.message,
                                                 req.messages, req.extras),
                 !.llmCalls = @ + 1]
    /\ UNCHANGED <<chatVariant, turns, conversations, tasks, storeVars, classifyVars, contextVars, authVars, bulkVars, postVars,
                   journalVars, profileVars, accountVars, saveVars, activityVars>>

\* model.generateContent resolves with text
GenerateOk(text) ==
    /\ req.pc = "generate"
    /\ req' = [req EXCEPT !.pc = "log", !.llmOk = TRUE, !.llmText = text,
                          !.aiResponse = responseText(chatVariant, text)]
    /\ UNCHANGED <<chatVariant, turns, conversations, tasks, storeVars, classifyVars, contextVars, authVars, bulkVars, postVars,
                   journalVars, profileVars, accountVars, saveVars, activityVars>>

\* A generateResponse that calls the completion service once more after a
\* failure (mutant of GenerateFail)
GenerateFailRetried ==
    /\ req.pc = "generate"
    /\ req' = IF req.llmCalls < 2
              THEN [req EXCEPT !.llmCalls = @ + 1]
              ELSE [req EXCEPT !.pc = "done", !.resp = somethingWentWrong]
    /\ UNCHANGED <<chatVariant, turns, conversations, tasks, storeVars, classifyVars, contextVars, authVars, bulkVars, postVars,
                   journalVars, profileVars, accountVars, saveVars, activityVars>>

\* model.generateContent rejects: generateResponse rethrows, the route
\* answers 500
GenerateFail ==
    /\ req.pc = "generate"
    /\ req' = [req EXCEPT !.pc = "done", !.resp = somethingWentWrong]
    /\ UNCHANGED <<chatVariant, turns, conversations, tasks, storeVars, classifyVars, contextVars, authVars, bulkVars, postVars,
                   journalVars, profileVars, accountVars, saveVars, activityVars>>

\* await logConversation(...); updateUserSummary(...) not awaited;
\* res.json(response)
LogAndRespond(ok) ==
    /\ req.pc = "log"
    /\ conversations' = logConversation(conversations, req.userId, req.message,
                                        req.aiResponse, FALSE, ok)
    /\ LET thrown == logConversationThrows(ok)
           called == ~thrown /\ callsUpdateUserSummary(chatVariant, req.userId)
       IN
         /\ tasks' = IF called /\ summaryStarts(chatVariant, req.userId)
                     THEN tasks \cup { [turn |-> turns, userId |-> req.userId,
                                        currentSummary |-> req.userContext.wellnessSummary,
                                        pc |-> "llm", updatedSummary |-> ""] }
                     ELSE tasks
         /\ req' = IF called /\ awaitsUpdateUserSummary(chatVariant)
                    THEN [req EXCEPT !.pc = "summary", !.logOk = ok,
                                     !.logged = IF ok THEN @ + 1 ELSE @,
                                     !.summaryCalls = @ + 1]
                    ELSE [req EXCEPT !.pc = "done", !.logOk = ok,
                               !.logged = IF ok THEN @ + 1 ELSE @,
                               !.summaryCalls = IF called THEN @ + 1 ELSE @,
                               !.resp = IF thrown
                                        THEN somethingWentWrong
                                        ELSE Resp(200, normalResponse(chatVariant, req.aiResponse))]
    /\ UNCHANGED <<chatVariant, turns, storeVars, classifyVars, contextVars, authVars, bulkVars, postVars,
                   journalVars, profileVars, accountVars, saveVars, activityVars>>

\* The response has been sent; the next request can come
Close ==
    /\ req.pc = "done"
    /\ req' = ReqIdle
    /\ UNCHANGED <<chatVariant, turns, conversations, tasks, storeVars, classifyVars, contextVars, authVars, bulkVars, postVars,
                   journalVars, profileVars, accountVars, saveVars, activityVars>>

\* updateUserSummary: the completion service returns the new summary
SummaryGenerated(t, text) ==
    /\ t \in tasks /\ t.pc = "llm"
    /\ tasks' = (tasks \ {t}) \cup { [t EXCEPT !.pc = "write", !.updatedSummary = text] }
    /\ UNCHANGED <<chatVariant, req, turns, conversations, storeVars, classifyVars, contextVars, authVars, bulkVars, postVars,
                   journalVars, profileVars, accountVars, saveVars, activityVars>>

\* updateUserSummary: the completion call throws; the error is only logged
SummaryFails(t) ==
    /\ t \in tasks
    /\ tasks' = tasks \ {t}
    /\ UNCHANGED <<chatVariant, req, turns, conversations, storeVars, classifyVars, contextVars, authVars, bulkVars, postVars,
                   journalVars, profileVars, accountVars, saveVars, activityVars>>

\* What the completion service answers to the prompt of updateUserSummary:
\* the CURRENT SUMMARY of the prompt extended with what the excerpt of the
\* turn adds ("a" for the turn before the last, "b" for the last turn)
summarize(currentSummary, turn) ==
    CASE currentSummary = "s0"   /\ turn < MaxTurns   -> "s0+a"
      [] currentSummary = "s0"   /\ turn >= MaxTurns  -> "s0+b"
      [] currentSummary = "s0+a" /\ turn >= MaxTurns  -> "s0+a+b"
      [] currentSummary = "s0+b" /\ turn < MaxTurns   -> "s0+b+a"
      [] OTHER                                        -> currentSummary

\* An updateUserSummary that summarizes again from the summary stored when
\* it writes (mutant of SummaryWritten)
SummaryWrittenFromStored(t) ==
    /\ t \in tasks /\ t.pc = "write"
    /\ t.userId \in KnownIds
    /\ users' = [users EXCEPT ![t.userId] =
                    [exists |-> TRUE, name |-> @.name,
                     wellnessSummary |-> summarize(@.wellnessSummary, t.turn)]]
    /\ tasks' = tasks \ {t}
    /\ UNCHANGED <<chatVariant, req, turns, conversations, moodEntries, classifyVars, contextVars, authVars, bulkVars, postVars,
                   journalVars, profileVars, accountVars, saveVars, activityVars>>

\* updateUserSummary: users/{userId}.set({ wellnessSummary }, { merge: true })
SummaryWritten(t) ==
    /\ t \in tasks /\ t.pc = "write"
    /\ t.userId \in KnownIds
    /\ users' = [users EXCEPT ![t.userId] =
                    [exists |-> TRUE, name |-> @.name,
                     wellnessSummary |-> t.updatedSummary]]
    /\ tasks' = tasks \ {t}
    /\ UNCHANGED <<chatVariant, req, turns, conversations, moodEntries, classifyVars, contextVars, authVars, bulkVars, postVars,
                   journalVars, profileVars, accountVars, saveVars, activityVars>>

-----------------------------------------------------------------------------
(* The session-token middleware verifyToken                                *)
(* (src/routes/post.js 10-44, src/unnamed/part_001 8-59)                   *)


\* The base64 alphabet; a character's position less one is its value.
base64Alphabet ==
    UpperCase \o LowerCase \o
    <<"0","1","2","3","4","5","6","7","8","9","+","/">>

\* String.fromCharCode for the bytes that occur in decoded tokens: space,
\* digits, the colon and letters; any other byte stands as "?".
fromCharCode(b) ==
    IF b = 32 THEN " "
    ELSE IF b >= 48 /\ b <= 57 THEN <<"0","1","2","3","4","5","6","7","8","9">>[b - 47]
    ELSE IF b = 58 THEN ":"
    ELSE IF b >= 65 /\ b <= 90 THEN UpperCase[b - 64]
    ELSE IF b >= 97 /\ b <= 122 THEN LowerCase[b - 96]
    ELSE "?"

IndexOf(seq, c) == CHOOSE i \in DOMAIN seq : seq[i] = c

\* The characters of the token that carry data: those of the alphabet,
\* up to the first padding character.
base64Data(token) ==
    LET stop == IF \E i \in DOMAIN token : token[i] = "="
                THEN (CHOOSE i \in DOMAIN token :
                         /\ token[i] = "="
                         /\ \A j \in 1..(i - 1) : token[j] # "=") - 1
                ELSE Len(token)
    IN  SelectSeq(SubSeq(token, 1, stop),
                  LAMBDA c : \E i \in DOMAIN base64Alphabet : base64Alphabet[i] = c)

\* Buffer.from(token, 'base64').toString('utf-8'): four characters of six
\* bits make three bytes; an incomplete last byte is dropped.
base64Decode(token) ==
    LET data == base64Data(token)
        sextet(i) == IF i <= Len(data) THEN IndexOf(base64Alphabet, data[i]) - 1 ELSE 0
        group(g) == sextet(4 * g + 1) * 262144 + sextet(4 * g + 2) * 4096
                    + sextet(4 * g + 3) * 64 + sextet(4 * g + 4)
        shift(j) == IF j = 0 THEN 65536 ELSE IF j = 1 THEN 256 ELSE 1
        byte(k) == (group((k - 1) \div 3) \div shift((k - 1) % 3)) % 256
    IN  [k \in 1..((Len(data) * 6) \div 8) |-> fromCharCode(byte(k))]

\* String.prototype.split(sep), for a non-empty separator.
RECURSIVE split(_, _)
split(s, sep) ==
    IF \E i \in 1..Len(s) : LiteralAt(s, sep, i)
    THEN LET i == CHOOSE i \in 1..Len(s) :
                     /\ LiteralAt(s, sep, i)
                     /\ \A j \in 1..(i - 1) : ~LiteralAt(s, sep, j)
         IN  <<SubSeq(s, 1, i - 1)>> \o split(SubSeq(s, i + Len(sep), Len(s)), sep)
    ELSE <<s>>

\* A JavaScript value that is a string or undefined.
Str(s) == [defined |-> TRUE, text |-> s]
NoStr == [defined |-> FALSE, text |-> <<>>]

\* parts[k] of a JavaScript array (k counted from 0).
at(parts, k) == IF k + 1 <= Len(parts) THEN Str(parts[k + 1]) ELSE NoStr

\* A JavaScript number that is an integer or NaN.
Num(n) == [nan |-> FALSE, val |-> n]
NaN == [nan |-> TRUE, val |-> 0]

RECURSIVE decimal(_, _)
decimal(digits, acc) ==
    IF digits = <<>> THEN acc
    ELSE decimal(Tail(digits),
                 acc * 10 + IndexOf(<<"0","1","2","3","4","5","6","7","8","9">>,
                                    Head(digits)) - 1)

RECURSIVE digitPrefix(_)
digitPrefix(s) ==
    IF s # <<>> /\ Head(s) \in Digits THEN <<Head(s)>> \o digitPrefix(Tail(s)) ELSE <<>>

\* parseInt(x): x is converted to a string (undefined to "undefined"),
\* leading white space is skipped, then an optional sign and the longest
\* run of decimal digits are read; with no digit the result is NaN.
parseInt(x) ==
    LET s == IF x.defined THEN trimStart(x.text)
             ELSE <<"u","n","d","e","f","i","n","e","d">>
        negative == s # <<>> /\ Head(s) = "-"
        unsigned == IF s # <<>> /\ Head(s) \in {"-", "+"} THEN Tail(s) ELSE s
        digits == digitPrefix(unsigned)
    IN  IF digits = <<>> THEN NaN
        ELSE Num(IF negative THEN 0 - decimal(digits, 0) ELSE decimal(digits, 0))

\* now - x and a > n in JavaScript arithmetic: NaN propagates through the
\* subtraction and every comparison with NaN is false.
minus(now, x) == IF x.nan THEN NaN ELSE Num(now - x.val)
greaterThan(a, n) == ~a.nan /\ a.val > n

\* 24 * 60 * 60 * 1000
maxTokenAge == 24 * 60 * 60 * 1000

tokenExpired(now, timestamp) == greaterThan(minus(now, parseInt(timestamp)), maxTokenAge)

\* req.headers.authorization?.split('Bearer ')[1]
bearerToken(header) ==
    IF header.defined
    THEN at(split(header.text, <<"B","e","a","r","e","r"," ">>), 1)
    ELSE NoStr

\* !token
falsy(x) == ~x.defined \/ x.text = <<>>

uid_u1 == <<"u","1">>

tok ==
    [ u1_5 |-> <<"d","T","E","6","N","Q","=","=">>,
      u9_5 |-> <<"d","T","k","6","N","Q","=","=">>,
      u1 |-> <<"d","T","E","=">>,
      u1_abc |-> <<"d","T","E","6","Y","W","J","j">>,
      colon_5 |-> <<"O","j","U","=">>,
      u1_5_7 |-> <<"d","T","E","6","N","T","o","3">>,
      u1_colon |-> <<"d","T","E","6">> ]

Tokens == {tok.u1_5, tok.u9_5, tok.u1, tok.u1_abc, tok.colon_5, tok.u1_5_7, tok.u1_colon}

h_Bearer == <<"B","e","a","r","e","r"," ">>

\* The Authorization headers of the requests: none, a bare token, the
\* scheme with no token, and the scheme followed by each token.
Headers ==
    {NoStr, Str(tok.u1_5), Str(h_Bearer)} \cup { Str(h_Bearer \o t) : t \in Tokens }

\* Date.now() when the middleware runs.  The valid token was issued at 5.
issuedAt == 5
MaxSkew == 1
Nows == {issuedAt} \cup { issuedAt + maxTokenAge + d : d \in 0..MaxSkew }


AuthIdle ==
    [pc |-> "idle", variant |-> "post", header |-> NoStr, now |-> 0,
     uid |-> NoStr, user |-> NoStr, resp |-> NoResp,
     responses |-> 0, nextCalls |-> 0, handlerRuns |-> 0]

reject(a, error) ==
    [a EXCEPT !.pc = "done", !.resp = Resp(401, [error |-> error]),
              !.responses = @ + 1]

\* The middleware up to its await: the token is read from the header and
\* decoded, the uid and the age are checked, and getUser is called.
VerifyToken(header, now) ==
    /\ auth.pc = "idle"
    /\ LET a == [auth EXCEPT !.header = header, !.now = now]
           token == bearerToken(header)
           parts == split(base64Decode(token.text), <<":">>)
           uid == at(parts, 0)
           timestamp == at(parts, 1)
       IN  auth' =
             IF falsy(token) THEN reject(a, "No token provided")
             ELSE IF falsy(uid)
                  THEN reject(a, IF a.variant = "post" THEN "Invalid token"
                                 ELSE "Invalid token format")
             ELSE IF tokenExpired(now, timestamp)
                  THEN reject(a, IF a.variant = "post" THEN "Invalid token"
                                 ELSE "Token expired")
             ELSE [a EXCEPT !.pc = "getUser", !.uid = uid]
    /\ UNCHANGED <<authUsers, classifyVars, storeVars, contextVars, chatVars,
                   bulkVars, postVars,
                   journalVars, profileVars, accountVars, saveVars, activityVars>>

\* admin.auth().getUser(uid) settles: it resolves to the account's record,
\* rejects with auth/user-not-found for an unknown uid, or rejects for
\* another reason.  On a record, req.user is set and next() is called.
GetUser(outcome) ==
    /\ auth.pc = "getUser"
    /\ auth' =
         IF outcome = "rejects"
         THEN reject(auth, "Invalid token")
         ELSE IF auth.uid.text \notin authUsers
              THEN reject(auth, IF auth.variant = "post" THEN "Invalid token"
                                ELSE "User not found")
         ELSE [auth EXCEPT !.pc = "next", !.user = auth.uid, !.nextCalls = @ + 1]
    /\ UNCHANGED <<authUsers, classifyVars, storeVars, contextVars, chatVars,
                   bulkVars, postVars,
                   journalVars, profileVars, accountVars, saveVars, activityVars>>

\* The protected handler runs for req.user and answers.
Handler ==
    /\ auth.pc = "next"
    /\ auth' = [auth EXCEPT !.pc = "done", !.handlerRuns = @ + 1,
                            !.resp = Resp(200, [error |-> ""]),
                            !.responses = @ + 1]
    /\ UNCHANGED <<authUsers, classifyVars, storeVars, contextVars, chatVars,
                   bulkVars, postVars,
                   journalVars, profileVars, accountVars, saveVars, activityVars>>

-----------------------------------------------------------------------------
(* The bulk deletes DELETE /conversations and DELETE /journals             *)
(* (src/unnamed/part_001 188-243, 246-301)                                 *)


batchSize == 500

\* The documents of a collection: one of another user, then n of "u1".
\* The numbers of "u1" documents tried: a few, and around each multiple
\* of the batch size.
MaxFew == 2
MaxFullBatches == 2
DocCounts ==
    (0..MaxFew) \cup { k * batchSize + d : k \in 1..MaxFullBatches, d \in {0 - 1, 0, 1} }

Doc(id, userId) == [id |-> id, userId |-> userId]

Docs(n) == <<Doc(0, "u2")>> \o [i \in 1..n |-> Doc(i, "u1")]

\* db.collection(name): the route's collection.
collection(route, conv, journals) ==
    IF route = "conversations" THEN conv ELSE journals

\* .where('userId', '==', uid).get(): the matching documents, in order.
whereUserId(coll, uid) == SelectSeq(coll, LAMBDA d : d.userId = uid)

BatchesEmpty ==
    [batches |-> <<>>, currentBatch |-> <<>>, operationCount |-> 0, totalDeleted |-> 0]

\* The body of the forEach: the delete is added to the current batch and
\* counted; a batch that has reached the batch size is saved and a new one
\* is started.
visit(acc, doc) ==
    LET current == Append(acc.currentBatch, doc.id)
        operationCount == acc.operationCount + 1
        totalDeleted == acc.totalDeleted + 1
    IN  IF operationCount >= batchSize
        THEN [batches |-> Append(acc.batches, current), currentBatch |-> <<>>,
              operationCount |-> 0, totalDeleted |-> totalDeleted]
        ELSE [batches |-> acc.batches, currentBatch |-> current,
              operationCount |-> operationCount, totalDeleted |-> totalDeleted]

\* docs.forEach over docs[loop.lo..loop.hi], in order, starting from the
\* variables' values loop.acc: the first half is visited, then the second.
RECURSIVE forEach(_, _)
forEach(docs, loop) ==
    IF loop.lo > loop.hi THEN loop.acc
    ELSE IF loop.lo = loop.hi THEN visit(loop.acc, docs[loop.lo])
    ELSE LET mid == (loop.lo + loop.hi) \div 2
         IN  forEach(docs,
                     [lo |-> mid + 1, hi |-> loop.hi,
                      acc |-> forEach(docs, [lo |-> loop.lo, hi |-> mid,
                                             acc |-> loop.acc])])

\* A handler that forgets the last batch (mutant of pushLast)
pushLastDropped(acc) == acc.batches

\* The last batch is added if it has operations.
pushLast(acc) ==
    IF acc.operationCount > 0 THEN Append(acc.batches, acc.currentBatch)
    ELSE acc.batches

BatchIndexes == 1..(MaxFullBatches + 1)

BulkResp(status, deletedCount) == [status |-> status, deletedCount |-> deletedCount]

BulkIdle ==
    [pc |-> "idle", route |-> "conversations", uid |-> "u1", snapshot |-> <<>>,
     batches |-> <<>>, pending |-> {}, failed |-> FALSE, totalDeleted |-> 0,
     resp |-> BulkResp(0, 0)]

\* The handler up to Promise.all: the caller's documents are queried; with
\* none found the answer is deletedCount 0; otherwise the deletes are put
\* into batches and every batch's commit is started.
BulkDelete(route) ==
    /\ bulk.pc = "idle"
    /\ LET docs == whereUserId(collection(route, chatConversations, journalEntries),
                               bulk.uid)
           acc == forEach(docs, [lo |-> 1, hi |-> Len(docs), acc |-> BatchesEmpty])
           batches == pushLast(acc)
       IN  bulk' =
             IF docs = <<>>
             THEN [bulk EXCEPT !.pc = "done", !.route = route, !.resp = BulkResp(200, 0)]
             ELSE [bulk EXCEPT !.pc = "committing", !.route = route,
                               !.snapshot = [i \in DOMAIN docs |-> docs[i].id],
                               !.batches = batches,
                               !.pending = DOMAIN batches,
                               !.totalDeleted = acc.totalDeleted]
    /\ UNCHANGED <<chatConversations, journalEntries, classifyVars, storeVars,
                   contextVars, chatVars, authVars, postVars,
                   journalVars, profileVars, accountVars, saveVars, activityVars>>

\* batch.commit() of one batch succeeds: its documents are deleted.
remove(coll, ids) == SelectSeq(coll, LAMBDA d : d.id \notin ids)

BatchCommits(i) ==
    /\ i \in bulk.pending
    /\ LET ids == Range(bulk.batches[i])
       IN  IF bulk.route = "conversations"
           THEN /\ chatConversations' = remove(chatConversations, ids)
                /\ UNCHANGED journalEntries
           ELSE /\ journalEntries' = remove(journalEntries, ids)
                /\ UNCHANGED chatConversations
    /\ bulk' = [bulk EXCEPT !.pending = @ \ {i}]
    /\ UNCHANGED <<classifyVars, storeVars, contextVars, chatVars, authVars, postVars,
                   journalVars, profileVars, accountVars, saveVars, activityVars>>

\* batch.commit() of one batch fails: Promise.all rejects at the first
\* failure and the handler answers 500; the other commits stay in flight.
BatchFails(i) ==
    /\ i \in bulk.pending
    /\ bulk' = [bulk EXCEPT !.pending = @ \ {i}, !.failed = TRUE,
                            !.pc = "done",
                            !.resp = IF bulk.pc = "committing" THEN BulkResp(500, 0)
                                     ELSE @]
    /\ UNCHANGED <<chatConversations, journalEntries, classifyVars, storeVars,
                   contextVars, chatVars, authVars, postVars,
                   journalVars, profileVars, accountVars, saveVars, activityVars>>

\* Every commit has succeeded: the handler answers with totalDeleted.
BulkRespond ==
    /\ bulk.pc = "committing"
    /\ bulk.pending = {}
    /\ bulk' = [bulk EXCEPT !.pc = "done", !.resp = BulkResp(200, bulk.totalDeleted)]
    /\ UNCHANGED <<chatConversations, journalEntries, classifyVars, storeVars,
                   contextVars, chatVars, authVars, postVars,
                   journalVars, profileVars, accountVars, saveVars, activityVars>>

-----------------------------------------------------------------------------
(* The community post routes: get, like, add comment, delete comment,      *)
(* delete reply, delete post                                               *)
(* (src/routes/post.js 85-321; the same code in src/unnamed/part_000)      *)

\* Number.prototype.toString(): the decimal digits of a natural number.
RECURSIVE toString(_)
toString(n) ==
    LET digit == <<"0","1","2","3","4","5","6","7","8","9">>[(n % 10) + 1]
    IN  IF n < 10 THEN <<digit>> ELSE toString(n \div 10) \o <<digit>>

\* req.user.name, the account's display name: "u2" has none.
displayName(uid) == IF uid = "u1" THEN "Ann" ELSE Undefined

Comment(id, uid, author, isAnonymous, content, timestamp) ==
    [id |-> id, author |-> author, isAnonymous |-> isAnonymous,
     content |-> content, timestamp |-> timestamp, userId |-> uid,
     replies |-> <<>>]

PostDoc(userId, likes, comments, version) ==
    [exists |-> TRUE, userId |-> userId, likes |-> likes,
     comments |-> comments, version |-> version]

\* No document: what get() returns for a post that does not exist.
NoPost ==
    [exists |-> FALSE, userId |-> "", likes |-> <<>>, comments |-> <<>>,
     version |-> 0]

t_hi_padded == <<" ","h","i">>

\* A comment of "u2" written at time 1.
firstComment == Comment(toString(1), "u2", "User", FALSE, <<"h","e","y">>, 1)

InitialPosts ==
    {NoPost} \cup
    { PostDoc("u1", likes, comments, 0) :
        likes \in {<<>>, <<"u2">>}, comments \in {<<>>, <<firstComment>>} }

\* The bodies of the comment requests: replyText, anonymous, parentCommentId.
CommentBody(replyText, anonymous, parentCommentId) ==
    [replyText |-> replyText, anonymous |-> anonymous,
     parentCommentId |-> parentCommentId]

CommentBodies ==
    { CommentBody(NoStr, FALSE, NoStr),
      CommentBody(Str(<<" ">>), FALSE, NoStr),
      CommentBody(Str(t_hi_padded), FALSE, NoStr),
      CommentBody(Str(t_hi_padded), TRUE, NoStr),
      CommentBody(Str(t_hi_padded), FALSE, Str(toString(1))),
      CommentBody(Str(t_hi_padded), FALSE, Str(toString(9))) }

\* The values Date.now() takes.
Times == {1, 2}

\* The number of requests on the post.
MaxReqs == 2

Slots == 1..MaxReqs

\* What the completion service answered to the moderation prompt: whether
\* the call threw, and the words of its text
ModerationAnswer(asked, thrown, tokens) ==
    [asked |-> asked, thrown |-> thrown, tokens |-> tokens]

\* moderateContent was not called
NotAsked == ModerationAnswer(FALSE, FALSE, <<>>)

ReqFree ==
    [pc |-> "free", kind |-> "", uid |-> "", commentId |-> <<>>,
     replyId |-> <<>>, snap |-> NoPost, likes |-> <<>>, writes |-> FALSE, attempts |-> 0,
     updatedComments |-> <<>>, moderation |-> NotAsked]

ReqDone == [ReqFree EXCEPT !.pc = "done"]

\* The answer to the request that finished last, with what its handler did.
PostResp(n, r, status, comments, wrote) ==
    [n |-> n, kind |-> r.kind, uid |-> r.uid, commentId |-> r.commentId,
     replyId |-> r.replyId, status |-> status, snap |-> r.snap, attempts |-> r.attempts,
     comments |-> comments, wrote |-> wrote, moderation |-> r.moderation]

NoPostResp == PostResp(0, ReqFree, 0, <<>>, 0)

\* A request is taken up by the first handler instance not yet used.
freeSlot(i) ==
    /\ postReqs[i].pc = "free"
    /\ \A j \in Slots : j < i => postReqs[j].pc # "free"

respond(r, status, comments, wrote) ==
    postResp' = PostResp(postResp.n + 1, r, status, comments, wrote)

\* Date.now() advances.
Tick ==
    /\ clock + 1 \in Times
    /\ clock' = clock + 1
    /\ UNCHANGED <<post, postReqs, postResp, classifyVars, storeVars, contextVars,
                   chatVars, authVars, bulkVars,
                   journalVars, profileVars, accountVars, saveVars, activityVars>>

(* ---- POST /:id/like ---- *)

\* runTransaction retries its update function when a document it read has
\* changed before the commit, up to this number of attempts.
txMaxAttempts == 5

\* A commit that does not compare versions (mutant of txConflict)
txConflictIgnored(readVersion, version) == FALSE

\* The post has changed since the transaction read it.
txConflict(readVersion, version) == readVersion # version

\* likes.includes(userId)
likesIncludes(likes, userId) == \E k \in DOMAIN likes : likes[k] = userId

\* The transaction's update function: the post is read; a post that does
\* not exist is an error (answered 500); the user's id is added to likes
\* unless likes has it already.
updateFunction(i, r) ==
    LET snap == post
        likes == IF likesIncludes(snap.likes, r.uid) THEN snap.likes
                 ELSE Append(snap.likes, r.uid)
        read == [r EXCEPT !.snap = snap, !.attempts = @ + 1]
    IN  IF ~snap.exists
        THEN /\ postReqs' = [postReqs EXCEPT ![i] = ReqDone]
             /\ respond(read, 500, <<>>, 0)
        ELSE /\ postReqs' = [postReqs EXCEPT ![i] =
                    [read EXCEPT !.pc = "txCommit", !.likes = likes,
                                 !.writes = ~likesIncludes(snap.likes, r.uid)]]
             /\ UNCHANGED postResp

\* A like request arrives and its transaction runs the update function.
LikeStart(i, uid) ==
    /\ freeSlot(i)
    /\ updateFunction(i, [ReqFree EXCEPT !.kind = "like", !.uid = uid])
    /\ UNCHANGED <<post, clock, classifyVars, storeVars, contextVars, chatVars,
                   authVars, bulkVars,
                   journalVars, profileVars, accountVars, saveVars, activityVars>>

\* The transaction runs the update function again after a failed commit.
LikeRetry(i) ==
    /\ postReqs[i].pc = "txGet"
    /\ updateFunction(i, postReqs[i])
    /\ UNCHANGED <<post, clock, classifyVars, storeVars, contextVars, chatVars,
                   authVars, bulkVars,
                   journalVars, profileVars, accountVars, saveVars, activityVars>>

\* The transaction commits: with the post changed since it was read the
\* commit fails and the transaction is retried, or given up after the last
\* attempt; otherwise the update, if any, is applied and 200 is answered.
LikeCommit(i) ==
    /\ postReqs[i].pc = "txCommit"
    /\ LET r == postReqs[i]
       IN  IF r.writes /\ txConflict(r.snap.version, post.version)
           THEN IF r.attempts >= txMaxAttempts
                THEN /\ postReqs' = [postReqs EXCEPT ![i] = ReqDone]
                     /\ respond(r, 500, <<>>, 0)
                     /\ UNCHANGED post
                ELSE /\ postReqs' = [postReqs EXCEPT ![i] = [r EXCEPT !.pc = "txGet"]]
                     /\ UNCHANGED <<post, postResp>>
           ELSE /\ post' = IF r.writes
                           THEN [post EXCEPT !.likes = r.likes, !.version = @ + 1]
                           ELSE post
                /\ postReqs' = [postReqs EXCEPT ![i] = ReqDone]
                /\ respond(r, 200, <<>>, IF r.writes THEN 1 ELSE 0)
    /\ UNCHANGED <<clock, classifyVars, storeVars, contextVars, chatVars,
                   authVars, bulkVars,
                   journalVars, profileVars, accountVars, saveVars, activityVars>>

(* ---- POST /:id/comment ---- *)

\* !replyText || replyText.trim().length === 0
emptyReply(replyText) == falsy(replyText) \/ Len(trim(replyText.text)) = 0

\* parentCommentId given: the reply is appended to the replies of every
\* comment with that id; otherwise the comment is appended to the list.
addReply(comments, parentCommentId, replyObj) ==
    IF falsy(parentCommentId)
    THEN Append(comments, replyObj)
    ELSE [k \in DOMAIN comments |->
            IF comments[k].id = parentCommentId.text
            THEN [comments[k] EXCEPT !.replies = Append(@, replyObj)]
            ELSE comments[k]]

\* A comment request arrives: an empty text is answered 400; the post is
\* read and a missing post answered 404; otherwise the comment is made,
\* with the time as its id, and put into the list that was read.
CommentStart(i, uid, body) ==
    /\ freeSlot(i)
    /\ LET r == [ReqFree EXCEPT !.kind = "comment", !.uid = uid,
                                !.commentId = body.parentCommentId.text]
           snap == post
           name == displayName(uid)
           replyObj ==
               Comment(toString(clock), uid,
                       IF body.anonymous THEN "Anonymous"
                       ELSE IF name # Undefined THEN name ELSE "User",
                       body.anonymous, trim(body.replyText.text), clock)
       IN  IF emptyReply(body.replyText)
           THEN /\ postReqs' = [postReqs EXCEPT ![i] = ReqDone]
                /\ respond(r, 400, <<>>, 0)
           ELSE IF ~snap.exists
           THEN /\ postReqs' = [postReqs EXCEPT ![i] = ReqDone]
                /\ respond([r EXCEPT !.snap = snap], 404, <<>>, 0)
           ELSE /\ postReqs' = [postReqs EXCEPT ![i] =
                       [r EXCEPT !.pc = "update", !.snap = snap,
                                 !.updatedComments =
                                     addReply(snap.comments, body.parentCommentId,
                                              replyObj)]]
                /\ UNCHANGED postResp
    /\ UNCHANGED <<post, clock, classifyVars, storeVars, contextVars, chatVars,
                   authVars, bulkVars,
                   journalVars, profileVars, accountVars, saveVars, activityVars>>

\* postRef.update({ comments: updatedComments }) and the answer; the update
\* of a post that no longer exists fails and is answered 500.
update(i) ==
    /\ LET r == postReqs[i]
       IN  IF post.exists
           THEN /\ post' = [post EXCEPT !.comments = r.updatedComments,
                                        !.version = @ + 1]
                /\ respond(r, 200, r.updatedComments, 1)
           ELSE /\ UNCHANGED post
                /\ respond(r, 500, <<>>, 0)
    /\ postReqs' = [postReqs EXCEPT ![i] = ReqDone]
    /\ UNCHANGED <<clock, classifyVars, storeVars, contextVars, chatVars,
                   authVars, bulkVars,
                   journalVars, profileVars, accountVars, saveVars, activityVars>>

CommentUpdate(i) ==
    /\ postReqs[i].pc = "update"
    /\ postReqs[i].kind = "comment"
    /\ update(i)

(* ---- DELETE /:postId/comment/:commentId ---- *)

\* comments.find(c => c.id === commentId): the index of the first comment
\* with the id, or 0.
find(comments, commentId) ==
    IF \E k \in DOMAIN comments : comments[k].id = commentId
    THEN CHOOSE k \in DOMAIN comments :
            /\ comments[k].id = commentId
            /\ \A j \in 1..(k - 1) : comments[j].id # commentId
    ELSE 0

\* A handler without the ownership test (mutant of ownsComment)
ownsCommentAlways(comment, uid) == TRUE

\* comment.userId !== req.user.uid is false
ownsComment(comment, uid) == comment.userId = uid

\* comments.filter(c => c.id !== commentId)
filterOut(comments, commentId) == SelectSeq(comments, LAMBDA c : c.id # commentId)

\* A delete request arrives: the post is read; a missing post or comment is
\* answered 404, a comment of another user 403; otherwise the comments
\* with the id are taken out of the list that was read.
DeleteCommentStart(i, uid, commentId) ==
    /\ freeSlot(i)
    /\ LET snap == post
           r == [ReqFree EXCEPT !.kind = "deleteComment", !.uid = uid,
                                !.commentId = commentId, !.snap = snap]
           k == find(snap.comments, commentId)
       IN  IF ~snap.exists \/ k = 0
           THEN /\ postReqs' = [postReqs EXCEPT ![i] = ReqDone]
                /\ respond(r, 404, <<>>, 0)
           ELSE IF ~ownsComment(snap.comments[k], uid)
           THEN /\ postReqs' = [postReqs EXCEPT ![i] = ReqDone]
                /\ respond(r, 403, <<>>, 0)
           ELSE /\ postReqs' = [postReqs EXCEPT ![i] =
                       [r EXCEPT !.pc = "update",
                                 !.updatedComments = filterOut(snap.comments, commentId)]]
                /\ UNCHANGED postResp
    /\ UNCHANGED <<post, clock, classifyVars, storeVars, contextVars, chatVars,
                   authVars, bulkVars,
                   journalVars, profileVars, accountVars, saveVars, activityVars>>

DeleteCommentUpdate(i) ==
    /\ postReqs[i].pc = "update"
    /\ postReqs[i].kind = "deleteComment"
    /\ update(i)

(* ---- GET /:id ---- *)

\* The post is read; a missing post is answered 404, otherwise the post
GetPost(i, uid) ==
    /\ freeSlot(i)
    /\ LET r == [ReqFree EXCEPT !.kind = "get", !.uid = uid, !.snap = post]
       IN  respond(r, IF post.exists THEN 200 ELSE 404, post.comments, 0)
    /\ postReqs' = [postReqs EXCEPT ![i] = ReqDone]
    /\ UNCHANGED <<post, clock, classifyVars, storeVars, contextVars, chatVars,
                   authVars, bulkVars, journalVars, profileVars, accountVars, saveVars, activityVars>>

(* ---- DELETE /:postId/comment/:commentId/reply/:replyId ---- *)

\* c.replies?.find(r => r.id === replyId) is a reply of another user: the
\* map callback throws 'Not your reply.'
notYourReply(c, replyId, uid) ==
    LET k == find(c.replies, replyId)
    IN  k # 0 /\ ~ownsComment(c.replies[k], uid)

\* The map over the comments: in every comment with the id the replies
\* with replyId are filtered out
withoutReply(comments, commentId, replyId) ==
    [k \in DOMAIN comments |->
        IF comments[k].id = commentId
        THEN [comments[k] EXCEPT !.replies = filterOut(@, replyId)]
        ELSE comments[k]]

\* replyFound after the map
replyFound(comments, commentId, replyId) ==
    \E k \in DOMAIN comments :
        comments[k].id = commentId /\ find(comments[k].replies, replyId) # 0

\* A delete request for a reply arrives: the post is read; a missing post
\* is answered 404, a reply of another user 403 (from the catch), a reply
\* that is not found 404; otherwise the replies are taken out of the list
\* that was read.
DeleteReplyStart(i, uid, commentId, replyId) ==
    /\ freeSlot(i)
    /\ LET snap == post
           r == [ReqFree EXCEPT !.kind = "deleteReply", !.uid = uid,
                                !.commentId = commentId, !.replyId = replyId,
                                !.snap = snap]
       IN  IF ~snap.exists
           THEN /\ postReqs' = [postReqs EXCEPT ![i] = ReqDone]
                /\ respond(r, 404, <<>>, 0)
           ELSE IF \E k \in DOMAIN snap.comments :
                      /\ snap.comments[k].id = commentId
                      /\ notYourReply(snap.comments[k], replyId, uid)
           THEN /\ postReqs' = [postReqs EXCEPT ![i] = ReqDone]
                /\ respond(r, 403, <<>>, 0)
           ELSE IF ~replyFound(snap.comments, commentId, replyId)
           THEN /\ postReqs' = [postReqs EXCEPT ![i] = ReqDone]
                /\ respond(r, 404, <<>>, 0)
           ELSE /\ postReqs' = [postReqs EXCEPT ![i] =
                       [r EXCEPT !.pc = "update",
                                 !.updatedComments =
                                     withoutReply(snap.comments, commentId, replyId)]]
                /\ UNCHANGED postResp
    /\ UNCHANGED <<post, clock, classifyVars, storeVars, contextVars, chatVars,
                   authVars, bulkVars, journalVars, profileVars, accountVars, saveVars, activityVars>>

DeleteReplyUpdate(i) ==
    /\ postReqs[i].pc = "update"
    /\ postReqs[i].kind = "deleteReply"
    /\ update(i)

(* ---- DELETE /:id ---- *)

\* A delete without the ownership test (mutant of ownsPost)
ownsPostAlways(snap, uid) == TRUE

\* snap.data().userId !== req.user.uid is false
ownsPost(snap, uid) == snap.userId = uid

\* A delete request for the post arrives: the post is read; a missing post
\* is answered 404, a post of another user 403.
DeletePostStart(i, uid) ==
    /\ freeSlot(i)
    /\ LET snap == post
           r == [ReqFree EXCEPT !.kind = "deletePost", !.uid = uid, !.snap = snap]
       IN  IF ~snap.exists
           THEN /\ postReqs' = [postReqs EXCEPT ![i] = ReqDone]
                /\ respond(r, 404, <<>>, 0)
           ELSE IF ~ownsPost(snap, uid)
           THEN /\ postReqs' = [postReqs EXCEPT ![i] = ReqDone]
                /\ respond(r, 403, <<>>, 0)
           ELSE /\ postReqs' = [postReqs EXCEPT ![i] = [r EXCEPT !.pc = "delete"]]
                /\ UNCHANGED postResp
    /\ UNCHANGED <<post, clock, classifyVars, storeVars, contextVars, chatVars,
                   authVars, bulkVars, journalVars, profileVars, accountVars, saveVars, activityVars>>

\* postRef.delete() and the answer; deleting a document that is already
\* gone succeeds.  The version of the document path goes on counting, so
\* that a transaction that read the post fails to commit.
DeletePostDelete(i) ==
    /\ postReqs[i].pc = "delete"
    /\ post' = [NoPost EXCEPT !.version = post.version + 1]
    /\ respond(postReqs[i], 200, <<>>, 1)
    /\ postReqs' = [postReqs EXCEPT ![i] = ReqDone]
    /\ UNCHANGED <<clock, classifyVars, storeVars, contextVars, chatVars,
                   authVars, bulkVars, journalVars, profileVars, accountVars, saveVars, activityVars>>

-----------------------------------------------------------------------------
(* The journal routes POST /, PUT /:id, DELETE /:id                        *)
(* (src/unnamed/part_000 523-734)                                          *)

\* A JSON value of a request body: its type, its value as a number where it
\* is one (true is 1, null is 0 in arithmetic), its text where it is a string
Js(type, num, text) == [type |-> type, num |-> num, text |-> text]

js ==
    [undefined |-> Js("undefined", NaN, <<>>),
     null      |-> Js("null", Num(0), <<>>),
     true      |-> Js("boolean", Num(1), <<>>),
     NaN       |-> Js("number", NaN, <<>>)]

jsNumber(n) == Js("number", Num(n), <<>>)

jsString(s) == Js("string", NaN, s)

\* ToBoolean
truthy(x) ==
    CASE x.type = "string"                -> x.text # <<>>
      [] x.type \in {"number", "boolean"} -> ~x.num.nan /\ x.num.val # 0
      [] OTHER                            -> FALSE

\* ToNumber, as the comparisons < 1, > 10, >= 1, <= 10 apply it: a string
\* is a number when, trimmed, it is empty or an optional sign and digits
toNumber(x) ==
    IF x.type # "string" THEN x.num
    ELSE LET t == trim(x.text)
             unsigned == IF t # <<>> /\ Head(t) \in {"-", "+"} THEN Tail(t) ELSE t
         IN  IF t = <<>> THEN Num(0)
             ELSE IF unsigned # <<>> /\ digitPrefix(unsigned) = unsigned
             THEN parseInt(Str(t))
             ELSE NaN

\* ToString, as parseInt applies it to its argument
toText(x) ==
    CASE x.type = "string"    -> x.text
      [] x.type = "boolean"   -> IF x.num.val = 1 THEN <<"t","r","u","e">>
                                 ELSE <<"f","a","l","s","e">>
      [] x.type = "null"      -> <<"n","u","l","l">>
      [] x.type = "undefined" -> <<"u","n","d","e","f","i","n","e","d">>
      [] x.num.nan            -> <<"N","a","N">>
      [] x.num.val < 0        -> <<"-">> \o toString(0 - x.num.val)
      [] OTHER                -> toString(x.num.val)

lessThan(a, n) == ~a.nan /\ a.val < n

\* The number parseInt(moodScore) that is stored
parsedScore(moodScore) ==
    LET parsed == parseInt(Str(toText(moodScore)))
    IN  IF parsed.nan THEN js.NaN ELSE jsNumber(parsed.val)

\* POST: moodScore && (moodScore < 1 || moodScore > 10)
createRejects(moodScore) ==
    truthy(moodScore) /\ (lessThan(toNumber(moodScore), 1) \/
                          greaterThan(toNumber(moodScore), 10))

\* PUT: moodScore >= 1 && moodScore <= 10
updateAccepts(moodScore) ==
    LET n == toNumber(moodScore) IN ~n.nan /\ n.val >= 1 /\ n.val <= 10

\* The values of moodScore in the request bodies
MoodScores ==
    { js.undefined, js.null, js.true, jsString(<<"7">>), jsString(<<"a","b","c">>),
      jsNumber(0 - 1), jsNumber(0), jsNumber(1), jsNumber(10), jsNumber(11) }

\* The request bodies: title, content, moodScore (tags and isFavorite are
\* copied independently of these and left out)
JournalBodies ==
    [title : {NoStr, Str(<<" ","t">>)}, content : {Str(<<"c">>)},
     moodScore : MoodScores]

JournalEntry(id, userId, title, content, moodScore) ==
    [id |-> id, userId |-> userId, title |-> title, content |-> content,
     moodScore |-> moodScore]

\* The number of journal requests
MaxJournalReqs == 2

\* No journal request has been handled; created counts the documents added
JournalIdle ==
    [n |-> 0, created |-> 0, kind |-> "", uid |-> "", id |-> 0,
     moodScore |-> js.undefined, status |-> 0]

answer(kind, uid, id, moodScore, status) ==
    journal' = [journal EXCEPT !.n = @ + 1, !.kind = kind, !.uid = uid, !.id = id,
                               !.moodScore = moodScore, !.status = status,
                               !.created = IF status = 201 THEN @ + 1 ELSE @]

\* db.collection('journalEntries').doc(id).get(): the index of the document,
\* or 0
entryAt(coll, id) ==
    IF \E k \in DOMAIN coll : coll[k].id = id
    THEN CHOOSE k \in DOMAIN coll : coll[k].id = id
    ELSE 0

\* router.post('/'): title and content are required; a truthy moodScore
\* outside 1..10 is refused; the entry is added for the caller
JournalCreate(uid, body) ==
    /\ journal.n < MaxJournalReqs
    /\ LET id == journal.created + 1
           entry == JournalEntry(id, uid, trim(body.title.text), body.content.text,
                                 IF truthy(body.moodScore)
                                 THEN parsedScore(body.moodScore) ELSE js.null)
       IN  IF falsy(body.title) \/ falsy(body.content) \/ createRejects(body.moodScore)
           THEN /\ answer("create", uid, 0, body.moodScore, 400)
                /\ UNCHANGED journalEntries
           ELSE /\ journalEntries' = Append(journalEntries, entry)
                /\ answer("create", uid, id, body.moodScore, 201)
    /\ UNCHANGED <<chatConversations, bulk, classifyVars, storeVars, contextVars,
                   chatVars, authVars, postVars, profileVars, accountVars, saveVars, activityVars>>

\* entryData.userId !== req.user.uid is false
ownsEntry(entryData, uid) == entryData.userId = uid

\* router.put('/:id'): 404 for a missing entry, 403 for another user's;
\* the fields given are put into updates, a moodScore that is neither null
\* nor within 1..10 is refused; entryRef.update(updates)
JournalUpdate(uid, id, body) ==
    /\ journal.n < MaxJournalReqs
    /\ LET k == entryAt(journalEntries, id)
           entryData == journalEntries[k]
           titled == IF body.title.defined
                     THEN [entryData EXCEPT !.title = trim(body.title.text)]
                     ELSE entryData
           updated == [titled EXCEPT
                         !.content = IF body.content.defined
                                     THEN body.content.text ELSE @,
                         !.moodScore =
                            IF body.moodScore = js.undefined THEN @
                            ELSE IF body.moodScore = js.null THEN js.null
                            ELSE parsedScore(body.moodScore)]
       IN  IF k = 0
           THEN /\ answer("update", uid, id, body.moodScore, 404)
                /\ UNCHANGED journalEntries
           ELSE IF ~ownsEntry(entryData, uid)
           THEN /\ answer("update", uid, id, body.moodScore, 403)
                /\ UNCHANGED journalEntries
           ELSE IF /\ body.moodScore \notin {js.undefined, js.null}
                   /\ ~updateAccepts(body.moodScore)
           THEN /\ answer("update", uid, id, body.moodScore, 400)
                /\ UNCHANGED journalEntries
           ELSE /\ journalEntries' = [journalEntries EXCEPT ![k] = updated]
                /\ answer("update", uid, id, body.moodScore, 200)
    /\ UNCHANGED <<chatConversations, bulk, classifyVars, storeVars, contextVars,
                   chatVars, authVars, postVars, profileVars, accountVars, saveVars, activityVars>>

\* router.delete('/:id'): 404 for a missing entry, 403 for another user's;
\* entryRef.delete()
JournalDelete(uid, id) ==
    /\ journal.n < MaxJournalReqs
    /\ LET k == entryAt(journalEntries, id)
       IN  IF k = 0
           THEN /\ answer("delete", uid, id, js.undefined, 404)
                /\ UNCHANGED journalEntries
           ELSE IF ~ownsEntry(journalEntries[k], uid)
           THEN /\ answer("delete", uid, id, js.undefined, 403)
                /\ UNCHANGED journalEntries
           ELSE /\ journalEntries' = SelectSeq(journalEntries, LAMBDA e : e.id # id)
                /\ answer("delete", uid, id, js.undefined, 200)
    /\ UNCHANGED <<chatConversations, bulk, classifyVars, storeVars, contextVars,
                   chatVars, authVars, postVars, profileVars, accountVars, saveVars, activityVars>>

-----------------------------------------------------------------------------
(* PUT /profile (src/unnamed/part_001 61-136)                              *)

\* The request bodies: name and bio (avatarUrl and preferences are handled
\* as bio is)
ProfileBodies ==
    [name : {NoStr, Str(<<" ">>), Str(<<"B","o"," ">>)}, bio : {NoStr, Str(<<"b">>)}]

\* The number of PUT /profile requests
MaxProfileReqs == 2

ProfileIdle ==
    [pc |-> "idle", n |-> 0, uid |-> "", name |-> NoStr, existed |-> FALSE,
     status |-> 0]

\* name !== undefined && name.trim()
namesGiven(name) == name.defined /\ trim(name.text) # <<>>

\* userRef.set({ uid, email, ...updates, createdAt }): without merge the
\* document becomes these fields and no others
firstProfile(userDoc, name) ==
    [exists |-> TRUE, name |-> IF name.defined THEN name.text ELSE <<>>,
     wellnessSummary |-> ""]

\* userRef.update(updates): the fields of updates are set, the others kept
updatedProfile(userDoc, name) ==
    [userDoc EXCEPT !.name = IF name.defined THEN name.text ELSE @]

\* router.put('/profile') up to userRef.get(): the updates are built, a
\* request without a valid field is answered 400, the document is read
ProfilePut(uid, body) ==
    /\ profileReq.pc \in {"idle", "done"}
    /\ profileReq.n < MaxProfileReqs
    /\ LET in == [ProfileIdle EXCEPT !.n = profileReq.n + 1, !.uid = uid]
       IN  profileReq' =
             IF ~namesGiven(body.name) /\ ~body.bio.defined
             THEN [in EXCEPT !.pc = "done", !.status = 400]
             ELSE [in EXCEPT !.pc = "write",
                             !.name = IF namesGiven(body.name)
                                      THEN Str(trim(body.name.text)) ELSE NoStr,
                             !.existed = users[uid].exists]
    /\ UNCHANGED <<storeVars, classifyVars, contextVars, chatVars, authVars,
                   bulkVars, postVars, journalVars, accountVars, saveVars, activityVars>>

\* The write that follows the read: set for a document that did not exist
\* when it was read, update otherwise (which fails on a missing document);
\* then the answer
ProfileWrite ==
    /\ profileReq.pc = "write"
    /\ LET uid == profileReq.uid
       IN  IF ~profileReq.existed
           THEN /\ users' = [users EXCEPT ![uid] = firstProfile(@, profileReq.name)]
                /\ profileReq' = [profileReq EXCEPT !.pc = "done", !.status = 200]
           ELSE IF users[uid].exists
           THEN /\ users' = [users EXCEPT ![uid] = updatedProfile(@, profileReq.name)]
                /\ profileReq' = [profileReq EXCEPT !.pc = "done", !.status = 200]
           ELSE /\ UNCHANGED users
                /\ profileReq' = [profileReq EXCEPT !.pc = "done", !.status = 500]
    /\ UNCHANGED <<moodEntries, classifyVars, contextVars, chatVars, authVars,
                   bulkVars, postVars, journalVars, accountVars, saveVars, activityVars>>

-----------------------------------------------------------------------------
(* DELETE /account (src/unnamed/part_001 304-396)                          *)


\* req.user.email of the accounts
email(uid) == IF uid = "u1" THEN "u1@x" ELSE "u2@x"

\* req.body.confirmEmail: absent, the caller's address, another address
ConfirmEmails == {Undefined, "u1@x", "u2@x"}

\* The uid as the authentication directory holds it
authUid(uid) == IF uid = "u1" THEN uid_u1 ELSE <<"u","2">>

\* A completion record of the activities collection
Activity(id, userId, activityId, date) ==
    [id |-> id, userId |-> userId, activityId |-> activityId, date |-> date]

\* The collections DELETE /account queries, in the order of the queries
accountCollections == <<"chatConversations", "journalEntries", "moodEntries", "activities">>

AccountResp(status, message) == [status |-> status, message |-> message]

\* No DELETE /account has arrived.  batches holds, per deletion task, the
\* documents whose delete the task's batch contains.
AccountIdle ==
    [pc |-> "idle", uid |-> "u1", confirmEmail |-> Undefined,
     batches |-> [name \in {} |-> <<>>], pending |-> {}, failed |-> FALSE,
     resp |-> AccountResp(0, "")]

\* db.collection(name) of DELETE /account
accountCollection(name, conv, journals, moods, acts) ==
    CASE name = "chatConversations" -> conv
      [] name = "journalEntries"    -> journals
      [] name = "moodEntries"       -> moods
      [] name = "activities"        -> acts

\* const batch = db.batch(); query.docs.forEach(doc => batch.delete(doc.ref)):
\* one batch per collection, holding a delete for every document found
accountBatch(docs) == docs

\* if (confirmEmail !== req.user.email) return res.status(400)
confirmed(confirmEmail, uid) == confirmEmail = email(uid)

\* The handler up to Promise.all: the confirmation is compared; the four
\* collections are queried for the caller's documents and, for every
\* collection with documents, one batch with all their deletes is
\* committed; the delete of the users document is started.
AccountDelete(uid, confirmEmail) ==
    /\ account.pc = "idle"
    /\ LET found == [name \in Range(accountCollections) |->
                        whereUserId(accountCollection(name, chatConversations,
                                                      journalEntries, moodEntries,
                                                      activities), uid)]
           queried == { name \in Range(accountCollections) : found[name] # <<>> }
       IN  account' =
             IF ~confirmed(confirmEmail, uid)
             THEN [account EXCEPT !.pc = "done", !.uid = uid,
                                  !.confirmEmail = confirmEmail,
                                  !.resp = AccountResp(400, "Email confirmation does not match")]
             ELSE [account EXCEPT !.pc = "deleting", !.uid = uid,
                                  !.confirmEmail = confirmEmail,
                                  !.batches = [name \in queried |-> accountBatch(found[name])],
                                  !.pending = queried \cup {"users"}]
    /\ UNCHANGED <<activities, classifyVars, storeVars, contextVars, chatVars, authVars,
                   bulkVars, postVars, journalVars, profileVars, saveVars, activityVars>>

\* What a committed batch leaves of a collection
without(coll, docs) ==
    LET deleted == Range(docs)
    IN  SelectSeq(coll, LAMBDA d : d \notin deleted)

\* One deletion task succeeds: the documents of its batch, or the users
\* document, are deleted.
DeletionCommits(name) ==
    /\ name \in account.pending
    /\ account' = [account EXCEPT !.pending = @ \ {name}]
    /\ chatConversations' = IF name = "chatConversations"
                            THEN without(chatConversations, account.batches[name])
                            ELSE chatConversations
    /\ journalEntries' = IF name = "journalEntries"
                         THEN without(journalEntries, account.batches[name])
                         ELSE journalEntries
    /\ moodEntries' = IF name = "moodEntries"
                      THEN without(moodEntries, account.batches[name])
                      ELSE moodEntries
    /\ activities' = IF name = "activities"
                     THEN without(activities, account.batches[name])
                     ELSE activities
    /\ users' = IF name = "users" THEN [users EXCEPT ![account.uid] = NoDoc] ELSE users
    /\ UNCHANGED <<bulk, classifyVars, contextVars, chatVars, authVars, postVars,
                   journalVars, profileVars, saveVars, activityVars>>

\* The catch of router.delete('/account')
failedToDelete == AccountResp(500, "Failed to delete account. Please try again or contact support.")

\* One deletion task fails: Promise.all rejects at the first failure and
\* the handler answers 500; the other tasks stay in flight.
DeletionFails(name) ==
    /\ name \in account.pending
    /\ account' = [account EXCEPT !.pending = @ \ {name}, !.failed = TRUE,
                                  !.pc = "done",
                                  !.resp = IF account.pc = "deleting"
                                           THEN failedToDelete ELSE @]
    /\ UNCHANGED <<activities, classifyVars, storeVars, contextVars, chatVars, authVars,
                   bulkVars, postVars, journalVars, profileVars, saveVars, activityVars>>

\* Every deletion task has succeeded: admin.auth().deleteUser(uid), then
\* the answer
AuthDeleted ==
    /\ account.pc = "deleting"
    /\ account.pending = {}
    /\ authUsers' = authUsers \ {authUid(account.uid)}
    /\ account' = [account EXCEPT !.pc = "done",
                                  !.resp = AccountResp(200, "Account deleted successfully")]
    /\ UNCHANGED <<auth, activities, classifyVars, storeVars, contextVars, chatVars,
                   bulkVars, postVars, journalVars, profileVars, saveVars, activityVars>>

\* admin.auth().deleteUser(uid) throws: 404 for auth/user-not-found, else 500
AuthDeleteFails(code) ==
    /\ account.pc = "deleting"
    /\ account.pending = {}
    /\ account' = [account EXCEPT !.pc = "done",
                                  !.resp = IF code = "auth/user-not-found"
                                           THEN AccountResp(404, "User not found in authentication system")
                                           ELSE failedToDelete]
    /\ UNCHANGED <<activities, classifyVars, storeVars, contextVars, chatVars, authVars,
                   bulkVars, postVars, journalVars, profileVars, saveVars, activityVars>>

-----------------------------------------------------------------------------
(* Content moderation of posts and comments                                *)
(* (src/unnamed/part_000 17-97, 197-251, 284-353)                          *)


\* The words of the texts the completion service answers with; the opening
\* and the closing code fence are the words "fence_json" and "fence"
ModerationTexts ==
    { <<>>,
      <<"{", "safe", ":", "true", "}">>,
      <<"{", "safe", ":", "false", "}">>,
      <<"fence_json", "{", "safe", ":", "false", "}", "fence">>,
      <<"fence_json", "{", "safe", ":", "true", "}", "fence">>,
      <<"{", "safe", ":", "'true'", "}">>,
      <<"{", "verdict", ":", "true", "}">>,
      <<"{", "}">>,
      <<"Sure", "{", "safe", ":", "true", "}">>,
      <<"{", "safe", ":", "false">>,
      <<"0">>,
      <<"null">> }

ModerationAnswers ==
    {ModerationAnswer(TRUE, TRUE, <<>>)} \cup
    { ModerationAnswer(TRUE, FALSE, tokens) : tokens \in ModerationTexts }

\* responseText.replace(/```json\n?/g, '').replace(/```\n?/g, '')
stripFences(tokens) == SelectSeq(tokens, LAMBDA t : t \notin {"fence_json", "fence"})

\* The JSON values of the one-word texts
jsonLiteral ==
    [t \in {"true", "false", "null", "0", "'true'"} |->
        CASE t = "true"   -> js.true
          [] t = "false"  -> Js("boolean", Num(0), <<>>)
          [] t = "null"   -> js.null
          [] t = "0"      -> jsNumber(0)
          [] t = "'true'" -> jsString(<<"t","r","u","e">>)]

\* JSON.parse(responseText) and the member safe of its value: a literal, an
\* empty object, or an object with one member; anything else is a
\* SyntaxError.  The member safe of a value without it is undefined.
JSONparse(tokens) ==
    IF Len(tokens) = 1 /\ tokens[1] \in DOMAIN jsonLiteral
    THEN [ok |-> TRUE, value |-> jsonLiteral[tokens[1]], safe |-> js.undefined]
    ELSE IF tokens = <<"{", "}">>
    THEN [ok |-> TRUE, value |-> Js("object", NaN, <<>>), safe |-> js.undefined]
    ELSE IF /\ Len(tokens) = 5
            /\ tokens[1] = "{" /\ tokens[3] = ":" /\ tokens[5] = "}"
            /\ tokens[2] \notin {"{", "}", ":"}
            /\ tokens[4] \in DOMAIN jsonLiteral
    THEN [ok |-> TRUE, value |-> Js("object", NaN, <<>>),
          safe |-> IF tokens[2] = "safe" THEN jsonLiteral[tokens[4]] ELSE js.undefined]
    ELSE [ok |-> FALSE, value |-> js.undefined, safe |-> js.undefined]

\* A moderateContent that treats a technical failure as unsafe (mutant of
\* moderateContent)
moderateContentFailClosed(moderation) ==
    LET moderationResult == JSONparse(stripFences(moderation.tokens))
    IN  IF moderation.thrown \/ ~moderationResult.ok \/ moderationResult.value = js.null
        THEN [safe |-> FALSE]
        ELSE [safe |-> moderationResult.safe = js.true]

\* moderateContent: a throwing call and an moderation that does not parse give
\* safe: true; reading the member safe of null throws inside the outer try,
\* which gives safe: true as well; otherwise safe is
\* moderationResult.safe === true
moderateContent(moderation) ==
    LET moderationResult == JSONparse(stripFences(moderation.tokens))
    IN  IF moderation.thrown \/ ~moderationResult.ok \/ moderationResult.value = js.null
        THEN [safe |-> TRUE]
        ELSE [safe |-> moderationResult.safe = js.true]

\* req.body.content of POST /
PostContents == {NoStr, Str(<<" ">>), Str(t_hi_padded)}

\* router.post('/') of the posts: empty content is answered 400; content
\* that moderation finds not safe is answered 400; otherwise the post is
\* added.  The posts collection of the model holds one post.
CreatePost(i, uid, content, moderation) ==
    /\ freeSlot(i)
    /\ ~post.exists
    /\ LET r == [ReqFree EXCEPT !.kind = "createPost", !.uid = uid]
           asked == [r EXCEPT !.moderation = moderation]
       IN  IF emptyReply(content)
           THEN /\ respond(r, 400, <<>>, 0)
                /\ UNCHANGED post
           ELSE IF ~moderateContent(moderation).safe
           THEN /\ respond(asked, 400, <<>>, 0)
                /\ UNCHANGED post
           ELSE /\ post' = PostDoc(uid, <<>>, <<>>, post.version + 1)
                /\ respond(asked, 200, <<>>, 1)
    /\ postReqs' = [postReqs EXCEPT ![i] = ReqDone]
    /\ UNCHANGED <<clock, classifyVars, storeVars, contextVars, chatVars,
                   authVars, bulkVars, journalVars, profileVars, accountVars, saveVars, activityVars>>

\* router.post('/:id/comment') with moderation: as CommentStart, with the
\* moderation of the trimmed text between the test for an empty text and
\* the read of the post
ModeratedCommentStart(i, uid, body, moderation) ==
    /\ freeSlot(i)
    /\ LET r == [ReqFree EXCEPT !.kind = "comment", !.uid = uid,
                                !.commentId = body.parentCommentId.text,
                                !.moderation = moderation]
           snap == post
           name == displayName(uid)
           replyObj ==
               Comment(toString(clock), uid,
                       IF body.anonymous THEN "Anonymous"
                       ELSE IF name # Undefined THEN name ELSE "User",
                       body.anonymous, trim(body.replyText.text), clock)
       IN  IF emptyReply(body.replyText)
           THEN /\ postReqs' = [postReqs EXCEPT ![i] = ReqDone]
                /\ respond([r EXCEPT !.moderation = NotAsked], 400, <<>>, 0)
           ELSE IF ~moderateContent(moderation).safe
           THEN /\ postReqs' = [postReqs EXCEPT ![i] = ReqDone]
                /\ respond(r, 400, <<>>, 0)
           ELSE IF ~snap.exists
           THEN /\ postReqs' = [postReqs EXCEPT ![i] = ReqDone]
                /\ respond([r EXCEPT !.snap = snap], 404, <<>>, 0)
           ELSE /\ postReqs' = [postReqs EXCEPT ![i] =
                       [r EXCEPT !.pc = "update", !.snap = snap,
                                 !.updatedComments =
                                     addReply(snap.comments, body.parentCommentId,
                                              replyObj)]]
                /\ UNCHANGED postResp
    /\ UNCHANGED <<post, clock, classifyVars, storeVars, contextVars, chatVars,
                   authVars, bulkVars, journalVars, profileVars, accountVars, saveVars, activityVars>>

-----------------------------------------------------------------------------
(* POST /save-conversation and DELETE /conversation/:sessionId             *)
(* (src/routes/generate.js 1007-1074, 1152-1176)                           *)


\* The number of save-conversation requests
MaxSaves == 2

SaveSlots == 1..MaxSaves

\* req.body.messages: absent, or an array of messages
SaveMessages == {NoStr, Str(<<"m1">>), Str(<<"m1", "m2">>)}

\* req.body.sessionId: absent, or the id of a session
SessionIds == {NoStr, Str(<<"s-a">>)}

\* A document of chatConversations
Conversation(id, userId, sessionId, messages) ==
    [id |-> id, userId |-> userId, sessionId |-> sessionId, messages |-> messages,
     lastMessage |-> messages[Len(messages)], messageCount |-> Len(messages)]

SaveFree ==
    [pc |-> "free", uid |-> "", sessionId |-> <<>>, messages |-> <<>>,
     conversationId |-> 0, status |-> 0]

SaveDone == [SaveFree EXCEPT !.pc = "done"]

\* sessionId || 'session_' + Date.now()
sessionOf(sessionId, now) ==
    IF ~falsy(sessionId) THEN sessionId.text ELSE <<"session_">> \o toString(now)

\* .where('userId', '==', uid).where('sessionId', '==', sessionId).get()
whereSession(coll, uid, sessionId) ==
    SelectSeq(coll, LAMBDA d : d.userId = uid /\ d.sessionId = sessionId)

\* if (sessionId) existingQuery = ...: the documents of the session, looked
\* for only when the request names a session
existingConversation(coll, uid, sessionId) ==
    IF ~falsy(sessionId) THEN whereSession(coll, uid, sessionId.text) ELSE <<>>

\* The handler up to its write: a request without a messages array is
\* answered 400; with a sessionId the session's documents are queried and
\* the first one is to be updated; otherwise a document is to be added.
SaveStart(i, uid, messages, sessionId) ==
    /\ saves.reqs[i].pc = "free"
    /\ \A j \in SaveSlots : j < i => saves.reqs[j].pc # "free"
    /\ LET existingQuery == existingConversation(chatConversations, uid, sessionId)
           r == [SaveFree EXCEPT !.uid = uid, !.messages = messages.text,
                                 !.sessionId = sessionOf(sessionId, clock)]
       IN  saves' = [saves EXCEPT !.reqs[i] =
                IF ~messages.defined
                THEN [SaveDone EXCEPT !.uid = uid, !.status = 400]
                ELSE IF existingQuery # <<>>
                THEN [r EXCEPT !.pc = "update", !.conversationId = existingQuery[1].id]
                ELSE [r EXCEPT !.pc = "add"]]
    /\ UNCHANGED <<bulkVars, classifyVars, storeVars, contextVars, chatVars, authVars,
                   postVars, journalVars, profileVars, accountVars, activityVars>>

\* doc(conversationId).update({messages, lastMessage, messageCount, ...});
\* the update of a document that no longer exists fails and is answered 500
SaveUpdate(i) ==
    /\ saves.reqs[i].pc = "update"
    /\ LET r == saves.reqs[i]
           found == \E k \in DOMAIN chatConversations :
                       chatConversations[k].id = r.conversationId
       IN  /\ chatConversations' =
                [k \in DOMAIN chatConversations |->
                   IF chatConversations[k].id = r.conversationId
                   THEN Conversation(r.conversationId, chatConversations[k].userId,
                                     chatConversations[k].sessionId, r.messages)
                   ELSE chatConversations[k]]
           /\ saves' = [saves EXCEPT !.reqs[i] =
                           [r EXCEPT !.pc = "done",
                                     !.status = IF found THEN 200 ELSE 500]]
    /\ UNCHANGED <<journalEntries, bulk, classifyVars, storeVars, contextVars, chatVars,
                   authVars, postVars, journalVars, profileVars, accountVars, activityVars>>

\* collection('chatConversations').add(conversationData)
SaveAdd(i) ==
    /\ saves.reqs[i].pc = "add"
    /\ LET r == saves.reqs[i]
           id == saves.added + 1
       IN  /\ chatConversations' =
                Append(chatConversations, Conversation(id, r.uid, r.sessionId, r.messages))
           /\ saves' = [saves EXCEPT !.added = id,
                                     !.reqs[i] = [r EXCEPT !.pc = "done", !.status = 200,
                                                           !.conversationId = id]]
    /\ UNCHANGED <<journalEntries, bulk, classifyVars, storeVars, contextVars, chatVars,
                   authVars, postVars, journalVars, profileVars, accountVars, activityVars>>

\* router.delete('/conversation/:sessionId'): the first document of the
\* session is deleted; without one the answer is 404
DeleteConversation(uid, sessionId) ==
    /\ whereSession(chatConversations, uid, sessionId) # <<>>
    /\ chatConversations' =
          SelectSeq(chatConversations,
                    LAMBDA d : d.id # whereSession(chatConversations, uid, sessionId)[1].id)
    /\ UNCHANGED <<journalEntries, bulk, saves, classifyVars, storeVars, contextVars,
                   chatVars, authVars, postVars, journalVars, profileVars, accountVars,
                   activityVars>>

-----------------------------------------------------------------------------
(* GET /activities/today and POST /activities/complete                     *)
(* (src/routes/activities.js 42-261)                                       *)

\* The last day of the model; days are numbered from 1
MaxDay == 9

\* The number of completion records the requests add
MaxCompletions == 1

\* .limit(3) of the mood query
activityMoodLimit == 3

\* Date.now() - 7 * 24 * 60 * 60 * 1000: the days of activity history
historyDays == 7

\* .slice(0, 4)
maxActivities == 4

\* An activity of the pool; title, description, duration and category go
\* into the answer as they are and are left out here.
PoolActivity(id, difficulty, lo, hi) ==
    [id |-> id, difficulty |-> difficulty, moodRange |-> <<lo, hi>>]

allActivities ==
    << PoolActivity("breathing-exercise", "Easy", 1, 10),
       PoolActivity("meditation", "Medium", 1, 8),
       PoolActivity("body-scan", "Medium", 1, 7),
       PoolActivity("walk-outside", "Easy", 3, 10),
       PoolActivity("stretching", "Easy", 1, 10),
       PoolActivity("dance-break", "Easy", 4, 10),
       PoolActivity("gratitude-journal", "Easy", 1, 10),
       PoolActivity("mood-reflection", "Easy", 1, 8),
       PoolActivity("future-self", "Medium", 3, 10),
       PoolActivity("doodle", "Easy", 2, 10),
       PoolActivity("music-listening", "Easy", 1, 10),
       PoolActivity("reach-out", "Easy", 1, 10),
       PoolActivity("compliment-self", "Easy", 1, 8) >>

\* req.body.activityId: absent, or the id of an activity
CompleteIds == {Undefined, "breathing-exercise", "meditation"}

\* No activities request has been answered.  n counts the completion
\* records added by requests; body is the list GET /today answered last to
\* the caller on that day.
TodayIdle ==
    [n |-> 0, op |-> "none", uid |-> "", day |-> 0, status |-> 0,
     activityId |-> Undefined, body |-> <<>>]

\* .orderBy('date', 'desc'): the entry with the latest date first
RECURSIVE orderByDateDesc(_)
orderByDateDesc(entries) ==
    IF entries = <<>> THEN <<>>
    ELSE LET k == CHOOSE i \in DOMAIN entries :
                     \A j \in DOMAIN entries :
                        \/ entries[j].date < entries[i].date
                        \/ entries[j].date = entries[i].date /\ i <= j
         IN  <<entries[k]>> \o
             orderByDateDesc([j \in 1..(Len(entries) - 1) |->
                                 IF j < k THEN entries[j] ELSE entries[j + 1]])

\* recentMoods.reduce((sum, entry) => sum + entry.mood, 0)
RECURSIVE moodSum(_)
moodSum(entries) ==
    IF entries = <<>> THEN 0 ELSE Head(entries).mood + moodSum(Tail(entries))

\* avgMood, as the fraction sum / count: the mean of the moods, or 5 when
\* there is none
avgMood(recentMoods) ==
    IF Len(recentMoods) > 0
    THEN [sum |-> moodSum(recentMoods), count |-> Len(recentMoods)]
    ELSE [sum |-> 5, count |-> 1]

\* avgMood >= activity.moodRange[0] && avgMood <= activity.moodRange[1]
isMoodSuitable(avg, activity) ==
    /\ avg.sum >= activity.moodRange[1] * avg.count
    /\ avg.sum <= activity.moodRange[2] * avg.count

\* activityHistoryQuery.docs.map(doc => doc.data().activityId): the
\* activityIds of the caller's records of the last historyDays days
recentActivityIds(acts, uid, today) ==
    { acts[k].activityId : k \in { j \in DOMAIN acts :
                                     /\ acts[j].userId = uid
                                     /\ acts[j].date >= today - historyDays } }

\* The activityIds of the caller's records dated today
completedActivityIds(acts, uid, today) ==
    { acts[k].activityId : k \in { j \in DOMAIN acts :
                                     /\ acts[j].userId = uid
                                     /\ acts[j].date = today } }

\* allActivities.filter(isMoodSuitable && notRecentlyDone)
suitableActivities(avg, recent) ==
    SelectSeq(allActivities,
              LAMBDA activity : isMoodSuitable(avg, activity) /\ activity.id \notin recent)

\* suitableActivities.length > 0 ? suitableActivities.slice(0, 4)
\*   : allActivities.filter(activity => activity.difficulty === 'Easy').slice(0, 4)
selectActivities(suitable) ==
    IF Len(suitable) > 0
    THEN limit(suitable, maxActivities)
    ELSE limit(SelectSeq(allActivities, LAMBDA activity : activity.difficulty = "Easy"),
               maxActivities)

\* const { moodRange, ...activityData } = activity;
\* return { ...activityData, completed: completedActivityIds.includes(activity.id) }
withStatus(activity, completedIds) ==
    [f \in (DOMAIN activity \ {"moodRange"}) \cup {"completed"} |->
        IF f = "completed" THEN activity.id \in completedIds ELSE activity[f]]

\* activitiesWithStatus: the answer of GET /today
activitiesWithStatus(moods, acts, uid, today) ==
    LET recentMoods == limit(orderByDateDesc(where(moods, uid)), activityMoodLimit)
        chosen == selectActivities(
                     suitableActivities(avgMood(recentMoods),
                                        recentActivityIds(acts, uid, today)))
    IN  [k \in DOMAIN chosen |->
            withStatus(chosen[k], completedActivityIds(acts, uid, today))]

\* router.get('/today')
GetToday(uid) ==
    /\ todayResp' = [todayResp EXCEPT
                        !.op = "today", !.uid = uid, !.day = day, !.status = 200,
                        !.activityId = Undefined,
                        !.body = activitiesWithStatus(moodEntries, activities, uid, day)]
    /\ UNCHANGED <<day, account, activities, bulkVars, classifyVars, storeVars,
                   contextVars, chatVars, authVars, postVars, journalVars, profileVars,
                   saveVars>>

\* router.post('/complete'): 400 without an activityId; otherwise a
\* completion record dated today is added
Complete(uid, activityId) ==
    /\ LET shown == IF todayResp.uid = uid /\ todayResp.day = day
                    THEN todayResp.body ELSE <<>>
           r == [todayResp EXCEPT !.op = "complete", !.uid = uid, !.day = day,
                                  !.activityId = activityId, !.body = shown]
       IN  IF activityId \in {Undefined, ""}
           THEN /\ todayResp' = [r EXCEPT !.status = 400]
                /\ UNCHANGED activities
           ELSE /\ todayResp.n < MaxCompletions
                /\ activities' = Append(activities,
                                        Activity(Len(activities) + 1, uid, activityId, day))
                /\ todayResp' = [r EXCEPT !.status = 200, !.n = todayResp.n + 1]
    /\ UNCHANGED <<day, account, bulkVars, classifyVars, storeVars, contextVars,
                   chatVars, authVars, postVars, journalVars, profileVars, saveVars>>

\* Midnight (UTC) passes: new Date().toISOString().split('T')[0] changes
NextDay ==
    /\ day < MaxDay
    /\ day' = day + 1
    /\ UNCHANGED <<todayResp, accountVars, bulkVars, classifyVars, storeVars,
                   contextVars, chatVars, authVars, postVars, journalVars, profileVars,
                   saveVars>>

-----------------------------------------------------------------------------
(* Specifications                                                          *)

\* The parts of the system that take no step in a specification: no
\* request of theirs is being handled and their collections are empty.
Idle(parts) ==
    /\ "classify" \in parts =>
          /\ cVariant = "generate_3"
          /\ cMessage = <<>>
          /\ cPc = "call"
          /\ cResult = FALSE
    /\ "store" \in parts =>
          /\ users = [u \in KnownIds |-> NoDoc]
          /\ moodEntries = <<>>
    /\ "context" \in parts =>
          /\ xVariant = "generate_3"
          /\ xUserId = ""
          /\ xFault = "ok"
          /\ xPc = "call"
          /\ xResult = Context(<<>>, MoodText(""), "")
    /\ "chat" \in parts =>
          /\ chatVariant = "generate_3"
          /\ req = ReqIdle
          /\ turns = MaxTurns
          /\ conversations = <<>>
          /\ tasks = {}
    /\ "auth" \in parts =>
          /\ authUsers = {uid_u1}
          /\ auth = [AuthIdle EXCEPT !.pc = "done"]
    /\ "bulk" \in parts =>
          /\ chatConversations = <<>>
          /\ journalEntries = <<>>
          /\ bulk = [BulkIdle EXCEPT !.pc = "done"]
    /\ "post" \in parts =>
          /\ post = NoPost
          /\ postReqs = [i \in Slots |-> ReqDone]
          /\ clock = 1
          /\ postResp = NoPostResp
    /\ "journal" \in parts => journal = JournalIdle
    /\ "profile" \in parts => profileReq = [ProfileIdle EXCEPT !.pc = "done"]
    /\ "account" \in parts =>
          /\ account = [AccountIdle EXCEPT !.pc = "done"]
          /\ activities = <<>>
    /\ "save" \in parts => saves = [reqs |-> [i \in SaveSlots |-> SaveDone], added |-> 0]
    /\ "activities" \in parts =>
          /\ day = 1
          /\ todayResp = TodayIdle

\* detectCrisis is about to be applied to a message.
ClassifyInit ==
    /\ cVariant \in Variants
    /\ cMessage \in Messages
    /\ cPc = "call"
    /\ cResult = FALSE
    /\ Idle({"store", "context", "chat", "auth", "bulk", "post", "journal", "profile", "account", "save", "activities"})

SpecClassify == ClassifyInit /\ [][Classify]_vars

\* fetchUserContext is about to be applied to a user id; in the store u1
\* may have a profile, u2 has none, and both may have mood entries.
ContextInit ==
    /\ users \in { [u \in KnownIds |-> IF u = "u1" THEN d ELSE NoDoc] : d \in UserDocs }
    /\ moodEntries \in SeqsUpTo(MoodDocs, MaxMoods)
    /\ xVariant \in {"generate_2", "generate_3"}
    /\ xUserId \in KnownIds \cup {"", "anonymous"}
    /\ xFault \in Faults
    /\ xPc = "call"
    /\ xResult = Context(<<>>, MoodText(""), "")
    /\ Idle({"classify", "chat", "auth", "bulk", "post", "journal", "profile", "account", "save", "activities"})

\* fetchUserContext is about to be applied to u1, who has no profile and up
\* to MaxStored mood entries of different times, stored in any order.
RecentMoodsInit ==
    /\ users = [u \in KnownIds |-> NoDoc]
    /\ moodEntries \in { [i \in DOMAIN ks |-> MoodAt(ks[i])] :
                           ks \in DistinctSeqs(1..MaxStored, MaxStored) }
    /\ xVariant \in {"generate_2", "generate_3"}
    /\ xUserId = "u1"
    /\ xFault = "ok"
    /\ xPc = "call"
    /\ xResult = Context(<<>>, MoodText(""), "")
    /\ Idle({"classify", "chat", "auth", "bulk", "post", "journal", "profile", "account", "save", "activities"})

SpecRecentMoods == RecentMoodsInit /\ [][FetchUserContext]_vars

NextChat ==
    \/ \E message \in ChatMessages, userIdIn \in UserIdInputs, extras \in Extras :
          \E messages \in Histories(chatVariant, message) :
             Start(message, messages, userIdIn, extras)
    \/ \E ok \in BOOLEAN : CrisisLog(ok)
    \/ \E fault \in ChatFaults : FetchContext(fault)
    \/ \E text \in LLMTexts : GenerateOk(text)
    \/ GenerateFail
    \/ \E ok \in BOOLEAN : LogAndRespond(ok)
    \/ Close
    \/ \E t \in tasks : \E text \in SummaryTexts : SummaryGenerated(t, text)
    \/ \E t \in tasks : SummaryFails(t)
    \/ \E t \in tasks : SummaryWritten(t)

\* No chat request has arrived; conversations holds the record of an
\* earlier turn; u1 has a profile or none, and there are no mood entries.
ChatInit ==
    /\ chatVariant \in Variants
    /\ req = ReqIdle
    /\ turns = 0
    /\ conversations = <<oldRecord>>
    /\ tasks = {}
    /\ users \in { [u \in KnownIds |-> IF u = "u1" THEN d ELSE NoDoc] :
                     d \in {NoDoc, [exists |-> TRUE, name |-> n_ann_lee,
                                    wellnessSummary |-> "s0"]} }
    /\ moodEntries = <<>>
    /\ Idle({"classify", "context", "auth", "bulk", "post", "journal", "profile", "account", "save", "activities"})

Spec == ChatInit /\ [][NextChat]_vars

SpecContext == ContextInit /\ [][FetchUserContext]_vars

NextAuth ==
    \/ \E header \in Headers, now \in Nows : VerifyToken(header, now)
    \/ \E outcome \in {"resolves", "rejects"} : GetUser(outcome)
    \/ Handler

\* No request has reached the middleware; u1 is the one account.
AuthInit ==
    /\ authUsers = {uid_u1}
    /\ \E v \in {"post", "part_001"} : auth = [AuthIdle EXCEPT !.variant = v]
    /\ Idle({"classify", "store", "context", "chat", "bulk", "post", "journal", "profile", "account", "save", "activities"})

SpecAuth == AuthInit /\ [][NextAuth]_vars

NextBulk ==
    \/ \E route \in {"conversations", "journals"} : BulkDelete(route)
    \/ \E i \in BatchIndexes : BatchCommits(i)
    \/ \E i \in BatchIndexes : BatchFails(i)
    \/ BulkRespond

\* No bulk delete has been asked for; both collections hold one document
\* of u2 and the same number of documents of u1.
BulkInit ==
    /\ \E n \in DocCounts :
          /\ chatConversations = Docs(n)
          /\ journalEntries = Docs(n)
    /\ bulk = BulkIdle
    /\ Idle({"classify", "store", "context", "chat", "auth", "post", "journal", "profile", "account", "save", "activities"})

SpecBulk == BulkInit /\ [][NextBulk]_vars

NextPost ==
    \/ Tick
    \/ \E i \in Slots, uid \in KnownIds : LikeStart(i, uid)
    \/ \E i \in Slots : LikeRetry(i)
    \/ \E i \in Slots : LikeCommit(i)
    \/ \E i \in Slots, uid \in KnownIds, body \in CommentBodies :
          CommentStart(i, uid, body)
    \/ \E i \in Slots : CommentUpdate(i)
    \/ \E i \in Slots, uid \in KnownIds, commentId \in { toString(t) : t \in Times } :
          DeleteCommentStart(i, uid, commentId)
    \/ \E i \in Slots : DeleteCommentUpdate(i)
    \/ \E i \in Slots, uid \in KnownIds : GetPost(i, uid)
    \/ \E i \in Slots, uid \in KnownIds, replyId \in { toString(t) : t \in Times } :
          DeleteReplyStart(i, uid, toString(1), replyId)
    \/ \E i \in Slots : DeleteReplyUpdate(i)
    \/ \E i \in Slots, uid \in KnownIds : DeletePostStart(i, uid)
    \/ \E i \in Slots : DeletePostDelete(i)

\* No request on the post has arrived.
PostInit ==
    /\ post \in InitialPosts
    /\ postReqs = [i \in Slots |-> ReqFree]
    /\ clock = 1
    /\ postResp = NoPostResp
    /\ Idle({"classify", "store", "context", "chat", "auth", "bulk", "journal", "profile", "account", "save", "activities"})

SpecPost == PostInit /\ [][NextPost]_vars

NextJournal ==
    \/ \E uid \in KnownIds, body \in JournalBodies : JournalCreate(uid, body)
    \/ \E uid \in KnownIds, id \in 1..MaxJournalReqs, body \in JournalBodies :
          JournalUpdate(uid, id, body)
    \/ \E uid \in KnownIds, id \in 1..MaxJournalReqs : JournalDelete(uid, id)

\* No journal request has arrived; the collection is empty or holds an
\* entry of u1 without a mood score.
JournalInit ==
    /\ journalEntries \in { <<>>, <<JournalEntry(1, "u1", <<"t">>, <<"c">>, js.null)>> }
    /\ journal = [JournalIdle EXCEPT !.created = Len(journalEntries)]
    /\ chatConversations = <<>>
    /\ bulk = [BulkIdle EXCEPT !.pc = "done"]
    /\ Idle({"classify", "store", "context", "chat", "auth", "post", "profile", "account", "save", "activities"})

SpecJournal == JournalInit /\ [][NextJournal]_vars

NextProfile ==
    \/ \E uid \in KnownIds, body \in ProfileBodies : ProfilePut(uid, body)
    \/ ProfileWrite
    \/ \E t \in tasks : \E text \in SummaryTexts : SummaryGenerated(t, text)
    \/ \E t \in tasks : SummaryFails(t)
    \/ \E t \in tasks : SummaryWritten(t)

\* A chat turn of u1 has been answered and its summary update waits for the
\* completion service; u1 has a profile with a summary, or none yet; no
\* PUT /profile has arrived.
ProfileInit ==
    /\ users \in { [u \in KnownIds |-> IF u = "u1" THEN d ELSE NoDoc] :
                     d \in {NoDoc, [exists |-> TRUE, name |-> n_ann_lee,
                                    wellnessSummary |-> "s0"]} }
    /\ moodEntries = <<>>
    /\ chatVariant = "generate_3"
    /\ req = ReqIdle
    /\ turns = MaxTurns
    /\ conversations = <<>>
    /\ tasks = { [turn |-> MaxTurns, userId |-> "u1",
                  currentSummary |-> users["u1"].wellnessSummary,
                  pc |-> "llm", updatedSummary |-> ""] }
    /\ profileReq = ProfileIdle
    /\ Idle({"classify", "context", "auth", "bulk", "post", "journal", "account", "save", "activities"})

SpecProfile == ProfileInit /\ [][NextProfile]_vars

\* Two chat turns of one user: the last turn runs while the summary update
\* of the turn before it is still in the background
NextSummary ==
    \/ Start(frag.ok, <<>>, "u1", "none")
    \/ FetchContext("ok")
    \/ GenerateOk(t_try)
    \/ \E ok \in BOOLEAN : LogAndRespond(ok)
    \/ Close
    \/ \E t \in tasks : SummaryGenerated(t, summarize(t.currentSummary, t.turn))
    \/ \E t \in tasks : SummaryWritten(t)

\* A chat turn of u1, whose context fetch read the summary "s0", has been
\* answered and its summary update waits for the completion service or
\* for its write; the next turn has not arrived.
SummaryInit ==
    /\ users = [u \in KnownIds |->
                  IF u = "u1"
                  THEN [exists |-> TRUE, name |-> n_ann_lee, wellnessSummary |-> "s0"]
                  ELSE NoDoc]
    /\ moodEntries = <<>>
    /\ chatVariant \in Variants \ {"part_002"}
    /\ req = ReqIdle
    /\ turns = MaxTurns - 1
    /\ conversations \in {<<>>, <<oldRecord>>}
    /\ tasks \in { { [turn |-> MaxTurns - 1, userId |-> "u1", currentSummary |-> "s0",
                      pc |-> "llm", updatedSummary |-> ""] },
                   { [turn |-> MaxTurns - 1, userId |-> "u1", currentSummary |-> "s0",
                      pc |-> "write",
                      updatedSummary |-> summarize("s0", MaxTurns - 1)] } }
    /\ Idle({"classify", "context", "auth", "bulk", "post", "journal", "profile", "account", "save", "activities"})

SpecSummary == SummaryInit /\ [][NextSummary]_vars

NextAccount ==
    \/ \E uid \in {"u1"}, confirmEmail \in ConfirmEmails : AccountDelete(uid, confirmEmail)
    \/ \E name \in Range(accountCollections) \cup {"users"} : DeletionCommits(name)
    \/ \E name \in Range(accountCollections) \cup {"users"} : DeletionFails(name)
    \/ AuthDeleted
    \/ \E code \in {"auth/user-not-found", "auth/internal-error"} : AuthDeleteFails(code)
    \/ \E t \in tasks : \E text \in SummaryTexts : SummaryGenerated(t, text)
    \/ \E t \in tasks : SummaryFails(t)
    \/ \E t \in tasks : SummaryWritten(t)

\* u1 has a profile, a journal entry, a mood entry, a completion record, a
\* logged chat turn and a post; a chat turn of u1 has been answered and its
\* summary update waits for the completion service; no DELETE /account has
\* arrived.
AccountInit ==
    /\ users = [u \in KnownIds |->
                  IF u = "u1"
                  THEN [exists |-> TRUE, name |-> n_ann_lee, wellnessSummary |-> "s0"]
                  ELSE NoDoc]
    /\ moodEntries = <<MoodAt(1)>>
    /\ chatConversations \in {Docs(0), Docs(1)}
    /\ journalEntries = Docs(1)
    /\ bulk = [BulkIdle EXCEPT !.pc = "done"]
    /\ activities \in {<<>>, <<Activity(1, "u1", "meditation", 1)>>}
    /\ chatVariant = "generate_3"
    /\ req = ReqIdle
    /\ turns = MaxTurns
    /\ conversations = <<[oldRecord EXCEPT !.userId = "u1"]>>
    /\ tasks = { [turn |-> MaxTurns, userId |-> "u1", currentSummary |-> "s0",
                  pc |-> "llm", updatedSummary |-> ""] }
    /\ authUsers = {uid_u1}
    /\ auth = [AuthIdle EXCEPT !.pc = "done"]
    /\ post = PostDoc("u1", <<>>, <<>>, 0)
    /\ postReqs = [i \in Slots |-> ReqDone]
    /\ clock = 1
    /\ postResp = NoPostResp
    /\ account = AccountIdle
    /\ Idle({"classify", "context", "journal", "profile", "save", "activities"})

SpecAccount == AccountInit /\ [][NextAccount]_vars

\* The numbers of chatConversations documents of the caller: as many as a
\* batch holds, and one more
AccountDocCounts == {batchSize, batchSize + 1}

NextAccountBatches ==
    \/ \E uid \in {"u1"}, confirmEmail \in ConfirmEmails : AccountDelete(uid, confirmEmail)
    \/ \E name \in Range(accountCollections) \cup {"users"} : DeletionCommits(name)
    \/ \E name \in Range(accountCollections) \cup {"users"} : DeletionFails(name)
    \/ AuthDeleted
    \/ \E code \in {"auth/user-not-found", "auth/internal-error"} : AuthDeleteFails(code)

\* u1 has a profile, a batch or more of saved conversations, a journal
\* entry, a mood entry and perhaps a completion record; no DELETE /account
\* has arrived.
AccountBatchesInit ==
    /\ users = [u \in KnownIds |->
                  IF u = "u1"
                  THEN [exists |-> TRUE, name |-> n_ann_lee, wellnessSummary |-> "s0"]
                  ELSE NoDoc]
    /\ moodEntries = <<MoodAt(1)>>
    /\ \E n \in AccountDocCounts : chatConversations = Docs(n)
    /\ journalEntries = Docs(1)
    /\ bulk = [BulkIdle EXCEPT !.pc = "done"]
    /\ activities \in {<<>>, <<Activity(1, "u1", "meditation", 1)>>}
    /\ authUsers = {uid_u1}
    /\ auth = [AuthIdle EXCEPT !.pc = "done"]
    /\ account = AccountIdle
    /\ Idle({"classify", "context", "chat", "post", "journal", "profile", "save", "activities"})

SpecAccountBatches == AccountBatchesInit /\ [][NextAccountBatches]_vars

NextModeration ==
    \/ \E i \in Slots, uid \in KnownIds, content \in PostContents,
          moderation \in ModerationAnswers : CreatePost(i, uid, content, moderation)
    \/ \E i \in Slots, uid \in KnownIds, body \in CommentBodies,
          moderation \in ModerationAnswers : ModeratedCommentStart(i, uid, body, moderation)
    \/ \E i \in Slots : CommentUpdate(i)

\* One request is to come; there is no post yet, or one with a comment.
ModerationInit ==
    /\ post \in {NoPost, PostDoc("u1", <<>>, <<firstComment>>, 0)}
    /\ postReqs = [i \in Slots |-> IF i = 1 THEN ReqFree ELSE ReqDone]
    /\ clock = 1
    /\ postResp = NoPostResp
    /\ Idle({"classify", "store", "context", "chat", "auth", "bulk", "journal", "profile", "account", "save", "activities"})

SpecModeration == ModerationInit /\ [][NextModeration]_vars

NextSave ==
    \/ Tick
    \/ \E i \in SaveSlots, uid \in KnownIds, messages \in SaveMessages,
          sessionId \in SessionIds : SaveStart(i, uid, messages, sessionId)
    \/ \E i \in SaveSlots : SaveUpdate(i)
    \/ \E i \in SaveSlots : SaveAdd(i)
    \/ \E uid \in KnownIds : DeleteConversation(uid, <<"s-a">>)

\* No save-conversation request has arrived; chatConversations is empty or
\* holds the conversation of a session of u1.
SaveInit ==
    /\ chatConversations \in {<<>>, <<Conversation(1, "u1", <<"s-a">>, <<"m1">>)>>}
    /\ journalEntries = <<>>
    /\ bulk = [BulkIdle EXCEPT !.pc = "done"]
    /\ saves = [reqs |-> [i \in SaveSlots |-> SaveFree], added |-> Len(chatConversations)]
    /\ post = NoPost
    /\ postReqs = [i \in Slots |-> ReqDone]
    /\ clock = 1
    /\ postResp = NoPostResp
    /\ Idle({"classify", "store", "context", "chat", "auth", "journal", "profile", "account", "activities"})

SpecSave == SaveInit /\ [][NextSave]_vars

\* The caller has done every activity of the pool today
AllDone == [k \in DOMAIN allActivities |-> Activity(k, "u1", allActivities[k].id, 1)]

NextActivities ==
    \/ \E uid \in KnownIds : GetToday(uid)
    \/ \E uid \in KnownIds, activityId \in CompleteIds : Complete(uid, activityId)
    \/ NextDay

\* No activities request has arrived on day 1.  u1 has no mood entry, one
\* of mood 9, or four of which the latest three count; the activities
\* collection is empty or holds a record of each activity of the pool.
ActivitiesInit ==
    /\ users = [u \in KnownIds |-> NoDoc]
    /\ moodEntries \in {<<>>, <<MoodAt(9)>>, <<MoodAt(10), MoodAt(3), MoodAt(9), MoodAt(7)>>}
    /\ account = [AccountIdle EXCEPT !.pc = "done"]
    /\ activities \in {<<>>, AllDone}
    /\ day = 1
    /\ todayResp = TodayIdle
    /\ Idle({"classify", "context", "chat", "auth", "bulk", "post", "journal", "profile", "save"})

SpecActivities == ActivitiesInit /\ [][NextActivities]_vars

\* A reply of u1, written at time 2, to the comment of u2
firstReply == Comment(toString(2), "u1", "Ann", FALSE, <<"h","i">>, 2)

NextOwnership ==
    \/ \E i \in Slots, uid \in KnownIds, replyId \in { toString(t) : t \in Times } :
          DeleteReplyStart(i, uid, toString(1), replyId)
    \/ \E i \in Slots : DeleteReplyUpdate(i)
    \/ \E i \in Slots, uid \in KnownIds : DeletePostStart(i, uid)
    \/ \E i \in Slots : DeletePostDelete(i)
    \/ \E uid \in KnownIds, id \in 1..MaxJournalReqs, body \in JournalBodies :
          JournalUpdate(uid, id, body)
    \/ \E uid \in KnownIds, id \in 1..MaxJournalReqs : JournalDelete(uid, id)

\* One more request on the post and one more journal request are to come.
\* The post, of either user, has the comment of u2 with the reply of u1;
\* each user has a journal entry.
OwnershipInit ==
    /\ post \in { PostDoc(owner, <<>>,
                          << [firstComment EXCEPT !.replies = <<firstReply>>] >>, 0) :
                  owner \in KnownIds }
    /\ postReqs = [i \in Slots |-> IF i = 1 THEN ReqFree ELSE ReqDone]
    /\ clock = 2
    /\ postResp = NoPostResp
    /\ journalEntries = << JournalEntry(1, "u1", <<"t">>, <<"c">>, js.null),
                           JournalEntry(2, "u2", <<"t">>, <<"c">>, jsNumber(5)) >>
    /\ journal = [JournalIdle EXCEPT !.n = MaxJournalReqs - 1, !.created = 2]
    /\ chatConversations = <<>>
    /\ bulk = [BulkIdle EXCEPT !.pc = "done"]
    /\ Idle({"classify", "store", "context", "chat", "auth", "profile", "account", "save", "activities"})

SpecOwnership == OwnershipInit /\ [][NextOwnership]_vars

-----------------------------------------------------------------------------
(* Claims about the classifier                                             *)

\* The phrase p occurs in message as a whole word: an occurrence (case
\* folded) that neither follows nor precedes a word character
OccursAsWholeWord(message, folded, p) ==
    \E i \in 1..Len(message) :
        /\ LiteralAt(folded, p, i)
        /\ (i = 1 \/ ~IsWordChar(message[i - 1]))
        /\ (i + Len(p) - 1 = Len(message) \/ ~IsWordChar(message[i + Len(p)]))

ContainsCrisisPhrase(v, message) ==
    LET folded == toLowerCase(message) IN
    \E p \in Phrases(v) : OccursAsWholeWord(message, folded, p)

\* C3: every detectCrisis implementation matches phrases only at word
\* boundaries: whenever it returns true, some configured phrase occurs in
\* the message as a whole word (so "hopelessly" alone is never flagged).
C3_MatchesOnlyWholeWords ==
    (cPc = "return" /\ cResult) => ContainsCrisisPhrase(cVariant, cMessage)

-----------------------------------------------------------------------------
(* Claims about the chat route                                             *)

\* The phrase occurs somewhere in the message, case folded
ContainsPhraseAnywhere(v, message) ==
    LET folded == toLowerCase(message) IN
    \E p \in Phrases(v) : includes(folded, p)

Responded(status) == req.pc = "done" /\ req.resp.status = status

\* C1: a request whose message contains a configured crisis phrase as a whole
\* word never calls the completion service, the context assembler or the
\* summarizer, starts no summary update, can only wait for the log write or
\* be answered, and is answered 200 with crisis = true and the fixed reply.
C1_CrisisBypassesCompletion ==
    (req.pc # "idle" /\ ContainsCrisisPhrase(chatVariant, req.message)) =>
        /\ req.llmCalls = 0
        /\ req.contextCalls = 0
        /\ req.summaryCalls = 0
        /\ \A t \in tasks : t.turn # turns
        /\ req.pc \in {"crisis", "done"}
        /\ req.pc = "done" =>
              /\ req.resp.status = 200
              /\ req.resp.body.crisis = TRUE
              /\ req.resp.body.reply = crisisReply(chatVariant)

\* A crisis message in capitals has been answered although its log write
\* failed
C1_Witness ==
    /\ Responded(200)
    /\ req.message = frag.want_to_die
    /\ req.resp.body.crisis
    /\ ~req.logOk

\* C2 (generate.js 890-959 and part_002 87-125): when the message is not
\* empty, contains no crisis phrase and the completion call succeeded, the
\* response has crisis = false, no helplines, and its reply is the text the
\* completion service returned for a history that ends in the current user
\* message.
C2_ReplyIsCompletionOfCurrentMessage ==
    ( /\ chatVariant \in {"generate_3", "part_002"}
      /\ req.pc = "done"
      /\ req.message # <<>>
      /\ ~ContainsPhraseAnywhere(chatVariant, req.message)
      /\ req.llmOk ) =>
        /\ req.resp.status = 200
        /\ req.resp.body.crisis = FALSE
        /\ "helplines" \notin DOMAIN req.resp.body
        /\ req.resp.body.reply = req.llmText
        /\ req.llmHistory # <<>>
        /\ req.llmHistory[Len(req.llmHistory)].role = "user"
        /\ LiteralAt(req.llmHistory[Len(req.llmHistory)].content, req.message, 1)

\* C4: every crisis response carries the supportive reply, crisis = true, the
\* India helpline 1800-599-0019 and the international directory
\* https://findahelpline.com/.
C4_CrisisResponseHasBothHelplines ==
    (Responded(200) /\ req.resp.body.crisis) =>
        /\ req.resp.body.reply = crisisReply(chatVariant)
        /\ req.resp.body.helplines.india = "1800-599-0019"
        /\ "international" \in DOMAIN req.resp.body.helplines
        /\ req.resp.body.helplines.international = "https://findahelpline.com/"

\* The record a turn that has been answered must have logged
TurnRecord ==
    [userId |-> req.userId, inputMessage |-> req.message,
     outputResponse |-> req.resp.body.reply,
     crisis |-> detectCrisis(chatVariant, req.message)]

C10_LoggedOnce ==
    (Responded(200) /\ req.logOk) =>
        /\ req.logged = 1
        /\ conversations[Len(conversations)] = TurnRecord

C10_AppendOnly ==
    /\ Len(conversations') >= Len(conversations)
    /\ Len(conversations') <= Len(conversations) + 1
    /\ SubSeq(conversations', 1, Len(conversations)) = conversations
    /\ Len(conversations') = Len(conversations) + 1 =>
          req'.logged = req.logged + 1

\* C10: a turn answered with a reply, its log write having succeeded, has
\* appended exactly one record, carrying the request's userId, the original
\* message, the reply sent and crisis = (the classifier flagged the message);
\* and no step of the chat path changes or removes a record already logged.
C10_OneRecordPerTurn == [](C10_LoggedOnce) /\ [][C10_AppendOnly]_vars

\* A normal turn of user u1 carrying a facial note has been answered and
\* logged after the earlier record
C10_Witness ==
    /\ Responded(200)
    /\ req.logOk
    /\ ~req.resp.body.crisis
    /\ req.userId = "u1"
    /\ req.extras = "facial"
    /\ Len(conversations) = 2

\* C11: a failed conversation log write never fails the chat request: on the
\* crisis path and on the normal path the step that logs answers 200 with
\* the body it has when the write succeeds, and a failed write is not
\* retried (it leaves the conversations collection as it was)
C11_LogFailureInvisible ==
    [][ (req.pc \in {"crisis", "log"} /\ req'.pc = "done") =>
          /\ req'.resp =
                IF req.pc = "crisis"
                THEN Resp(200, crisisResponse(chatVariant))
                ELSE Resp(200, normalResponse(chatVariant, req.aiResponse))
          /\ ~req'.logOk => conversations' = conversations
          /\ Len(conversations') <= Len(conversations) + 1 ]_vars

\* A normal turn whose log write failed and that answered 200 with the reply
C11_Witness ==
    /\ req.pc = "done"
    /\ req.llmOk
    /\ ~req.logOk
    /\ req.logged = 0
    /\ req.resp = Resp(200, normalResponse(chatVariant, req.aiResponse))

\* The uid the chat request is authenticated as: router.post('/') runs no
\* verifyToken, so req.user is never set and userId is what the body says
authenticatedUid == Undefined

\* C12: a chat request starts a summary completion call, and a users
\* document is written for it, only for a non-anonymous userId that the
\* request is authenticated as
C12_SummaryOnlyForAuthenticatedUser ==
    [][ /\ \A t \in tasks' \ tasks :
             t.pc = "llm" =>
               /\ t.userId \notin {"", "anonymous"}
               /\ t.userId = authenticatedUid
        /\ \A id \in KnownIds :
             users'[id] # users[id] => id = authenticatedUid ]_vars

\* C13: the summary update is detached from the response: the step that
\* starts it also sends the 200 reply, while the summary completion call is
\* still pending, and no later step of the update (its completion, its
\* failure, its store write) changes the request or its response
C13_SummaryDetached ==
    [][ /\ \A t \in tasks' \ tasks :
             t.pc = "llm" =>
               /\ req'.pc = "done"
               /\ req'.resp = Resp(200, normalResponse(chatVariant, req.aiResponse))
        /\ (tasks' # tasks /\ req.pc # "log") => req' = req ]_vars

\* The reply of a normal turn has been sent and the summary completion call
\* of that turn has not returned
C13_Witness ==
    /\ req.pc = "done"
    /\ req.resp = Resp(200, normalResponse(chatVariant, req.aiResponse))
    /\ \E t \in tasks : t.pc = "llm" /\ t.turn = turns /\ t.userId = req.userId

\* C15: when the completion call of a chat turn fails, the request ends with
\* the generic 500 error, the completion service was called once for it, no
\* summary update was started for the turn and nothing was logged
C15_CompletionFailureIsFinal ==
    (req.pc = "done" /\ req.llmCalls > 0 /\ ~req.llmOk) =>
        /\ req.resp = somethingWentWrong
        /\ req.llmCalls = 1
        /\ req.summaryCalls = 0
        /\ req.logged = 0
        /\ \A t \in tasks : t.turn # turns

\* The completion call failed for a user whose turn would otherwise start a
\* summary update
C15_Witness ==
    /\ req.pc = "done"
    /\ req.llmCalls = 1
    /\ ~req.llmOk
    /\ req.userId = "u1"
    /\ req.resp = somethingWentWrong
    /\ tasks = {}

\* The summaries that can be stored when every update summarizes from the
\* summary its own turn fetched: that of the earlier turn, that of the last
\* turn computed from the summary before the earlier update, and that of the
\* last turn computed after the earlier update was stored
SummariesOfOwnFetch == {"s0+a", "s0+b", "s0+a+b"}

\* C21: summary updates of one user are last-write-wins and each is computed
\* from the summary read at its own turn's context fetch: the update
\* dispatched by a turn carries the summary of that turn's context, the
\* stored summary is always one computed from such a summary (never one
\* computed from what another update stored in between), and once both
\* updates have finished it is the summary of whichever wrote last.
C21_SummaryLastWriteWins ==
    /\ users["u1"].wellnessSummary \in {"s0"} \cup SummariesOfOwnFetch
    /\ \A t \in tasks :
          /\ t.turn = turns /\ req.pc = "done" =>
                t.currentSummary = req.userContext.wellnessSummary
          /\ t.pc = "write" => t.updatedSummary \in SummariesOfOwnFetch
    /\ (tasks = {} /\ req.pc = "done" /\ req.summaryCalls = 1) =>
          users["u1"].wellnessSummary \in SummariesOfOwnFetch

\* Both updates have finished and the stored summary is the one computed by
\* the earlier turn: the update of the last turn was overwritten
C21_Witness ==
    /\ tasks = {}
    /\ req.pc = "done" /\ req.summaryCalls = 1
    /\ users["u1"].wellnessSummary = "s0+a"

-----------------------------------------------------------------------------
(* Claims about the context assembler                                      *)

\* n is the first name of full: the part of full before its first space
IsFirstNameOf(n, full) ==
    /\ Len(n) <= Len(full)
    /\ \A i \in 1..Len(n) : n[i] = full[i] /\ n[i] # " "
    /\ (Len(n) = Len(full) \/ full[Len(n) + 1] = " ")

HasNoMoods(userId) == \A i \in DOMAIN moodEntries : moodEntries[i].userId # userId

\* A call for a known, non-anonymous user without mood entries has returned
\* while the store worked
NoMoodsCase ==
    /\ xPc = "return"
    /\ xFault = "ok"
    /\ xUserId \in KnownIds
    /\ HasNoMoods(xUserId)

NameAndSummaryAsStored ==
    /\ IF users[xUserId].exists /\ users[xUserId].name # <<>>
       THEN IsFirstNameOf(xResult.name, users[xUserId].name)
       ELSE xResult.name = Friend
    /\ xResult.wellnessSummary =
          (IF users[xUserId].exists THEN users[xUserId].wellnessSummary ELSE "")

SortThrows ==
    sort(xVariant, limit(where(moodEntries, xUserId), moodQueryLimit)).threw

ListsMostRecent(lines, mine, p) ==
    /\ \A i, j \in DOMAIN p : i # j => p[i] # p[j]
    /\ lines = formatMoods([i \in DOMAIN p |-> mine[p[i]]])
    /\ \A i, j \in DOMAIN p : i < j => sortKey(mine[p[i]]) >= sortKey(mine[p[j]])
    /\ \A q \in DOMAIN mine :
          (\A i \in DOMAIN p : p[i] # q) =>
             \A i \in DOMAIN p : sortKey(mine[q]) <= sortKey(mine[p[i]])

\* C20: for a user with stored mood entries the recent mood list has at
\* most 3 entries, which are the user's three most recent entries (by
\* timestamp, else by date), most recent first, however many are stored
C20_ThreeMostRecentMoods ==
    LET mine == where(moodEntries, xUserId)
        lines == xResult.recentMoods.lines
        m == IF Len(mine) < 3 THEN Len(mine) ELSE 3
    IN (xPc = "return" /\ xFault = "ok" /\ xUserId \in KnownIds /\ mine # <<>>) =>
          /\ Len(lines) = m
          /\ \E p \in [1..m -> DOMAIN mine] : ListsMostRecent(lines, mine, p)

-----------------------------------------------------------------------------
(* Claims about the session-token middleware                               *)

\* The text has the form uid:timestamp: a non-empty uid, a colon, and a
\* timestamp that is a non-empty run of decimal digits.
IsUidTimestamp(text, uid, timestamp) ==
    /\ text = uid \o <<":">> \o timestamp
    /\ uid # <<>> /\ ":" \notin Range(uid)
    /\ timestamp # <<>> /\ Range(timestamp) \subseteq Digits

\* The header carries a bearer token that decodes to uid:timestamp for an
\* existing user, issued at most 24 hours before now.
ValidBearer(header, now) ==
    /\ header.defined
    /\ LiteralAt(header.text, h_Bearer, 1)
    /\ LET decoded == base64Decode(SubSeq(header.text, Len(h_Bearer) + 1, Len(header.text)))
       IN  \E i \in 1..Len(decoded) :
              LET uid == SubSeq(decoded, 1, i - 1)
                  timestamp == SubSeq(decoded, i + 1, Len(decoded))
              IN  /\ IsUidTimestamp(decoded, uid, timestamp)
                  /\ uid \in authUsers
                  /\ now - decimal(timestamp, 0) <= 24 * 60 * 60 * 1000

\* C9: verifyToken calls next only for a bearer token that decodes to
\* uid:timestamp with an existing uid and an age of at most 24 hours; for
\* any other request (no token, expired, malformed, timestamp missing or
\* not a number, unknown user) it answers 401, exactly once, and the
\* protected handler never runs.
C9_OnlyValidTokensPass ==
    /\ auth.nextCalls > 0 => ValidBearer(auth.header, auth.now)
    /\ (auth.pc = "done" /\ ~ValidBearer(auth.header, auth.now)) =>
          /\ auth.resp.status = 401
          /\ auth.responses = 1
          /\ auth.handlerRuns = 0

-----------------------------------------------------------------------------
(* Claims about the bulk deletes                                           *)

RECURSIVE Flatten(_)
Flatten(seqs) == IF seqs = <<>> THEN <<>> ELSE Head(seqs) \o Flatten(Tail(seqs))

BulkSucceeded ==
    /\ bulk.pc = "done"
    /\ bulk.resp.status = 200
    /\ ~bulk.failed

\* Once a bulk delete whose query returned N documents has answered after
\* all its commits succeeded: the batches, one after the other, hold the N
\* documents once each, none of the N is left in the collection, and the
\* answer reports deletedCount = N.
C7_AllDeletedAndCounted ==
    BulkSucceeded =>
        /\ Flatten(bulk.batches) = bulk.snapshot
        /\ { d.id : d \in Range(collection(bulk.route, chatConversations,
                                           journalEntries)) }
             \cap Range(bulk.snapshot) = {}
        /\ bulk.resp.deletedCount = Len(bulk.snapshot)

\* A step of a bulk delete removes only documents the query returned, and
\* only from the route's own collection.
C7_OnlyQueriedDeleted ==
    LET before == collection(bulk'.route, chatConversations, journalEntries)
        after == collection(bulk'.route, chatConversations', journalEntries')
        other == IF bulk'.route = "conversations" THEN "journals" ELSE "conversations"
        queried == Range(bulk.snapshot)
    IN  /\ Range(after) \subseteq Range(before)
        /\ \A d \in Range(before) \ Range(after) :
              d.userId = bulk.uid /\ d.id \in queried
        /\ collection(other, chatConversations', journalEntries')
             = collection(other, chatConversations, journalEntries)

\* C7: a bulk delete of a user's conversations or journal entries whose
\* query returns N documents and whose commits all succeed deletes exactly
\* those N documents, each in exactly one batch, and reports
\* deletedCount = N, also for N above the batch size of 500 and for N an
\* exact multiple of it.
C7_BulkDeleteExact == [](C7_AllDeletedAndCounted) /\ [][C7_OnlyQueriedDeleted]_vars

\* A bulk delete of two full batches has answered.
C7_Witness ==
    /\ BulkSucceeded
    /\ chatConversations # <<>>
    /\ Len(bulk.snapshot) = 2 * batchSize
    /\ Len(bulk.batches) = 2
    /\ bulk.resp.deletedCount = 2 * batchSize

-----------------------------------------------------------------------------
(* Claims about the post routes                                            *)

Count(seq, x) == Cardinality({ k \in DOMAIN seq : seq[k] = x })

\* No user id is in the post's likes more than once, and once a like
\* request of a user has been answered 200 the user's id is in the likes
\* for as long as the post exists.
C5_LikedOnce ==
    /\ \A u \in KnownIds : Count(post.likes, u) <= 1
    /\ (postResp.kind = "like" /\ postResp.status = 200 /\ post.exists) =>
          Count(post.likes, postResp.uid) = 1

\* No step takes a user's id out of the likes of a post it leaves in the
\* store.
C5_NoLikeLost ==
    post'.exists => \A u \in KnownIds : Count(post'.likes, u) >= Count(post.likes, u)

\* C5: after any number of like requests of a user on a post, one after
\* the other or interleaved, each a transaction on the post document, the
\* post's likes hold the user's id exactly once, and the likes of other
\* users are never lost.
C5_LikeIdempotent == [](C5_LikedOnce) /\ [][C5_NoLikeLost]_vars

\* A like was answered 200 after its transaction ran twice, the other
\* user's like having been committed in between.
C5_Witness ==
    /\ postResp.kind = "like"
    /\ postResp.status = 200
    /\ postResp.attempts = 2
    /\ postResp.snap.likes # <<>>
    /\ Count(post.likes, "u1") = 1
    /\ Count(post.likes, "u2") = 1

\* The comment the delete request addresses is of another user: the list
\* the handler read has a comment with the id, and the first such comment
\* is not the caller's.
NotCallersComment(resp) ==
    /\ resp.kind = "deleteComment"
    /\ resp.snap.exists
    /\ \E k \in DOMAIN resp.snap.comments :
          /\ resp.snap.comments[k].id = resp.commentId
          /\ \A j \in 1..(k - 1) : resp.snap.comments[j].id # resp.commentId
          /\ resp.snap.comments[k].userId # resp.uid

\* A delete of another user's comment is answered 403, without a write.
C6_Forbidden ==
    NotCallersComment(postResp) => postResp.status = 403 /\ postResp.wrote = 0

\* The step that answers it leaves the post as it was.
C6_NoWrite ==
    (postResp'.n # postResp.n /\ NotCallersComment(postResp')) => post' = post

\* C6: DELETE /:postId/comment/:commentId by a caller whose uid differs
\* from the comment's userId is answered 403 and writes nothing: the
\* post's comments are the same before and after the request.
C6_DeleteOthersCommentForbidden == [](C6_Forbidden) /\ [][C6_NoWrite]_vars

\* "u1" asked to delete the comment of "u2" and was answered 403.
C6_Witness ==
    /\ NotCallersComment(postResp)
    /\ postResp.uid = "u1"
    /\ postResp.status = 403
    /\ post.comments # <<>>

\* The reply the delete request addresses is of another user: a comment
\* with the id has a reply with the id, and the first such reply is not the
\* caller's
NotCallersReply(comments, commentId, replyId, uid) ==
    \E k \in DOMAIN comments :
        /\ comments[k].id = commentId
        /\ \E j \in DOMAIN comments[k].replies :
              /\ comments[k].replies[j].id = replyId
              /\ \A h \in 1..(j - 1) : comments[k].replies[h].id # replyId
              /\ comments[k].replies[j].userId # uid

\* The request the post routes answer in this step is a delete of a post
\* or of a reply that is not the caller's
OthersPostOrReply ==
    /\ postResp'.n = postResp.n + 1
    /\ post.exists
    /\ \/ postResp'.kind = "deletePost" /\ post.userId # postResp'.uid
       \/ /\ postResp'.kind = "deleteReply"
          /\ postResp'.snap = post
          /\ NotCallersReply(post.comments, postResp'.commentId,
                             postResp'.replyId, postResp'.uid)

\* The request the journal routes answer in this step is an update or a
\* delete of an entry that is not the caller's
OthersEntry ==
    /\ journal'.n = journal.n + 1
    /\ journal'.kind \in {"update", "delete"}
    /\ \E k \in DOMAIN journalEntries :
          /\ journalEntries[k].id = journal'.id
          /\ journalEntries[k].userId # journal'.uid

\* C16: deleting a post or a reply, and updating or deleting a journal
\* entry, whose stored userId is not the caller's uid is answered 403 and
\* leaves the post and the journal entries as they are; a delete waits to
\* write only for the owner
C16_OwnershipBeforeWrite ==
    [][ /\ OthersPostOrReply => (postResp'.status = 403 /\ post' = post)
        /\ OthersEntry => (journal'.status = 403 /\ journalEntries' = journalEntries)
        /\ \A i \in Slots :
              postReqs'[i].pc = "delete" => postReqs'[i].snap.userId = postReqs'[i].uid
      ]_vars

\* u2 has been refused the reply of u1 and the journal entry of u1; the
\* post and the entries are as they were
C16_Witness ==
    /\ postResp.kind = "deleteReply"
    /\ postResp.uid = "u2"
    /\ postResp.status = 403
    /\ post.comments[1].replies = <<firstReply>>
    /\ journal.kind = "update"
    /\ journal.uid = "u2"
    /\ journal.id = 1
    /\ journal.status = 403
    /\ Len(journalEntries) = 2
    /\ journalEntries[1].userId = "u1"

\* The request the post routes answer in this step found no post when it
\* read the store (a comment request refused for its empty text has read
\* nothing)
PostNotFound ==
    /\ postResp'.n = postResp.n + 1
    /\ postResp'.kind \in {"get", "like", "comment", "deleteComment",
                            "deleteReply", "deletePost"}
    /\ ~postResp'.snap.exists
    /\ postResp'.status # 400

\* The delete request answered in this step names a comment, or a reply,
\* that the post it read does not have
CommentOrReplyNotFound ==
    /\ postResp'.n = postResp.n + 1
    /\ postResp'.snap.exists
    /\ \/ /\ postResp'.kind = "deleteComment"
          /\ find(postResp'.snap.comments, postResp'.commentId) = 0
       \/ /\ postResp'.kind = "deleteReply"
          /\ ~replyFound(postResp'.snap.comments, postResp'.commentId,
                         postResp'.replyId)

\* C17: get, like, comment, delete comment, delete reply and delete post on
\* a post that does not exist are answered 404 and write nothing; deleting
\* a comment or a reply that the post does not have is answered 404 and
\* leaves the post as it is
C17_NotFoundIs404 ==
    [][ (PostNotFound \/ CommentOrReplyNotFound) =>
           (postResp'.status = 404 /\ postResp'.wrote = 0 /\ post' = post) ]_vars

\* The answer of the moderation call, its code fences removed, parsed to a
\* value other than null whose member safe is not true
NotSafeVerdict(moderation) ==
    /\ ~moderation.thrown
    /\ JSONparse(stripFences(moderation.tokens)).ok
    /\ JSONparse(stripFences(moderation.tokens)).value # js.null
    /\ JSONparse(stripFences(moderation.tokens)).safe # js.true

\* C23: moderation is fail-open.  A post or comment whose text was
\* moderated is answered 400 and not stored exactly when the moderation
\* answer parsed to a verdict that is not safe; when the call threw or its
\* answer does not parse, the post is stored and answered 200, and the
\* comment goes on to the read of the post and is stored with it.
C23_ModerationFailOpen ==
    LET a == postResp.moderation
    IN  postResp.kind \in {"createPost", "comment"} /\ a.asked =>
          /\ (postResp.status = 400) = NotSafeVerdict(a)
          /\ postResp.status = 400 => postResp.wrote = 0
          /\ ~NotSafeVerdict(a) /\ postResp.kind = "createPost" =>
                postResp.status = 200 /\ postResp.wrote = 1 /\ post.exists
          /\ ~NotSafeVerdict(a) /\ postResp.kind = "comment" =>
                IF postResp.snap.exists
                THEN /\ postResp.status = 200 /\ postResp.wrote = 1
                     /\ post.comments = postResp.comments
                ELSE postResp.status = 404

\* The moderation call threw and the comment was stored
C23_Witness ==
    /\ postResp.kind = "comment"
    /\ postResp.moderation.asked /\ postResp.moderation.thrown
    /\ postResp.status = 200
    /\ \E k \in DOMAIN post.comments : post.comments[k].userId = postResp.uid

\* Comment c is among comments, whatever its replies
Present(c, comments) ==
    \E j \in DOMAIN comments :
       /\ comments[j].id = c.id
       /\ comments[j].userId = c.userId
       /\ comments[j].content = c.content

\* C24: no acknowledged comment is lost.  Every stored comment was stored
\* together with the answer 'Comment added'; after any step of an
\* add-comment, delete-comment or delete-reply request it is still among
\* the stored comments of the post, unless the step is the successful
\* delete of that very comment.
C24_NoAcknowledgedCommentLost ==
    [][ post.exists /\ post'.exists =>
          \A k \in DOMAIN post.comments :
             \/ Present(post.comments[k], post'.comments)
             \/ /\ postResp'.n # postResp.n
                /\ postResp'.kind = "deleteComment"
                /\ postResp'.status = 200
                /\ postResp'.commentId = post.comments[k].id ]_vars

\* No two comments of the list have the same id
UniqueIds(comments) ==
    \A j, k \in DOMAIN comments : comments[j].id = comments[k].id => j = k

\* C25: a successful DELETE of a comment removes exactly one comment, the
\* one with the given id, owned by the caller, and leaves every other
\* comment of the post as it was, the comment ids of the post being unique.
C25_DeleteRemovesExactlyOne ==
    [][ ( /\ postResp'.n # postResp.n
          /\ postResp'.kind = "deleteComment"
          /\ postResp'.status = 200
          /\ UniqueIds(post.comments) ) =>
        \E k \in DOMAIN post.comments :
           /\ post.comments[k].id = postResp'.commentId
           /\ post.comments[k].userId = postResp'.uid
           /\ post'.comments = SubSeq(post.comments, 1, k - 1) \o
                               SubSeq(post.comments, k + 1, Len(post.comments)) ]_vars

\* C26: an add-comment request with a parentCommentId that is answered
\* 'Comment added' has appended the new reply to the replies of exactly the
\* comment with that id and has changed nothing else of the stored
\* comments; in particular it is not answered so when no comment has the id.
C26_ReplyAddedToParent ==
    [][ ( /\ postResp'.n # postResp.n
          /\ postResp'.kind = "comment"
          /\ postResp'.status = 200
          /\ postResp'.commentId # <<>> ) =>
        \E k \in DOMAIN post.comments :
           /\ post.comments[k].id = postResp'.commentId
           /\ DOMAIN post'.comments = DOMAIN post.comments
           /\ \A j \in DOMAIN post.comments \ {k} :
                 /\ post.comments[j].id # postResp'.commentId
                 /\ post'.comments[j] = post.comments[j]
           /\ \E replyObj \in Range(post'.comments[k].replies) :
                 /\ replyObj.userId = postResp'.uid
                 /\ post'.comments[k] =
                       [post.comments[k] EXCEPT !.replies = Append(@, replyObj)] ]_vars

-----------------------------------------------------------------------------
(* Claims about the journal routes and PUT /profile                        *)

\* n is a number outside 1..10
OutOfRange(moodScore) ==
    /\ moodScore.type = "number"
    /\ ~moodScore.num.nan
    /\ (moodScore.num.val < 1 \/ moodScore.num.val > 10)

\* C18: a create or update of a journal entry whose moodScore is a number
\* outside 1..10 (0 and the negative ones included) is answered 400, unless
\* the entry to update is missing or another user's, and the moodScore of
\* every stored entry is null or an integer from 1 to 10
C18_MoodScoreValidated ==
    /\ (journal.kind \in {"create", "update"} /\ OutOfRange(journal.moodScore)) =>
           journal.status \in {400, 403, 404}
    /\ \A k \in DOMAIN journalEntries :
           LET stored == journalEntries[k].moodScore
           IN  \/ stored = js.null
               \/ /\ stored.type = "number"
                  /\ ~stored.num.nan
                  /\ stored.num.val \in 1..10

\* C19: the wellnessSummary of a users document is changed only by the
\* store write of a summary update, which sets it to the summary the update
\* generated; PUT /profile leaves it as it is in every interleaving
C19_SummaryOwnedBySummarizer ==
    [][ \A id \in KnownIds :
          users'[id].wellnessSummary # users[id].wellnessSummary =>
             \E t \in tasks :
                /\ t.pc = "write"
                /\ t.userId = id
                /\ tasks' = tasks \ {t}
                /\ users'[id].wellnessSummary = t.updatedSummary ]_vars

-----------------------------------------------------------------------------
(* Claims about DELETE /account                                            *)

\* C22: every write batch a bulk delete of user data submits (DELETE
\* /conversations, DELETE /journals, the per-collection deletions of DELETE
\* /account) holds at most 500 deletes, whatever the number of documents of
\* the user, and the success answer is sent only when every batch of the
\* operation has been committed.
C22_BatchesWithinLimit ==
    /\ \A i \in DOMAIN bulk.batches : Len(bulk.batches[i]) <= batchSize
    /\ \A name \in DOMAIN account.batches : Len(account.batches[name]) <= batchSize
    /\ bulk.pc = "done" /\ bulk.resp.status = 200 => bulk.pending = {}
    /\ account.pc = "done" /\ account.resp.status = 200 => account.pending = {}

AccountDeleted ==
    /\ account.pc = "done"
    /\ account.resp = AccountResp(200, "Account deleted successfully")

\* The documents of the collections that carry uid
DocumentsOf(uid) ==
    [chatConversations |-> Range(whereUserId(chatConversations, uid)),
     journalEntries    |-> Range(whereUserId(journalEntries, uid)),
     moodEntries       |-> Range(whereUserId(moodEntries, uid)),
     activities        |-> Range(whereUserId(activities, uid)),
     conversations     |-> Range(whereUserId(conversations, uid)),
     posts             |-> IF post.exists /\ post.userId = uid THEN {post} ELSE {},
     users             |-> IF users[uid].exists THEN {users[uid]} ELSE {}]

\* A step deletes a document of the account's user, or the auth user
DeletesSomething ==
    LET uid == account'.uid
    IN  \/ ~(Range(whereUserId(chatConversations, uid)) \subseteq Range(chatConversations'))
        \/ ~(Range(whereUserId(journalEntries, uid)) \subseteq Range(journalEntries'))
        \/ ~(Range(whereUserId(moodEntries, uid)) \subseteq Range(moodEntries'))
        \/ ~(Range(whereUserId(activities, uid)) \subseteq Range(activities'))
        \/ users[uid].exists /\ ~users'[uid].exists
        \/ authUsers' # authUsers

\* C28: DELETE /account deletes nothing unless confirmEmail is the caller's
\* email; when it has answered 'Account deleted successfully' no document
\* carrying the user's id is left in conversations, chatConversations,
\* journalEntries, moodEntries, posts, activities or users; and the auth
\* user is deleted only after every store deletion has succeeded.
C28_AccountDeletedCompletely ==
    /\ [](AccountDeleted =>
             \A name \in DOMAIN DocumentsOf(account.uid) :
                DocumentsOf(account.uid)[name] = {})
    /\ [][ /\ DeletesSomething => account'.confirmEmail = email(account'.uid)
           /\ authUsers' # authUsers =>
                 /\ account.pending = {} /\ ~account.failed
                 /\ \A name \in Range(accountCollections) :
                       whereUserId(accountCollection(name, chatConversations,
                                                     journalEntries, moodEntries,
                                                     activities), account.uid) = <<>> ]_vars

\* C29: once DELETE /account has succeeded for a user, no users document of
\* that uid exists in any later state, also when a summary update started
\* by an earlier chat turn of the user finishes after the deletion.
C29_NoUsersDocumentAfterDelete ==
    AccountDeleted => ~users[account.uid].exists

-----------------------------------------------------------------------------
(* Claims about POST /save-conversation and the activities routes          *)

\* C27: chatConversations holds at most one document per (userId,
\* sessionId) pair after any sequence or interleaving of save-conversation
\* requests, so that GET and DELETE /conversation/:sessionId, which take
\* the first document of the pair, address the whole conversation.
C27_OneDocumentPerSession ==
    \A j, k \in DOMAIN chatConversations :
       /\ chatConversations[j].userId = chatConversations[k].userId
       /\ chatConversations[j].sessionId = chatConversations[k].sessionId
       => j = k

\* The answer of GET /today holds the activity with completed = true
Returned(body, activityId) ==
    \E k \in DOMAIN body : body[k].id = activityId /\ body[k].completed

\* C30: GET /activities/today always answers between 1 and 4 activities,
\* none of them with a moodRange, each with completed = true exactly when
\* the caller has a completion record of that activity dated today; and
\* after POST /activities/complete of an activity that /today returned, the
\* next /today of the caller on the same day returns that activity with
\* completed = true.
C30_TodayActivities ==
    /\ [](todayResp.op = "today" =>
            /\ Len(todayResp.body) \in 1..4
            /\ \A k \in DOMAIN todayResp.body :
                  /\ "moodRange" \notin DOMAIN todayResp.body[k]
                  /\ todayResp.body[k].completed <=>
                        \E j \in DOMAIN activities :
                           /\ activities[j].userId = todayResp.uid
                           /\ activities[j].activityId = todayResp.body[k].id
                           /\ activities[j].date = todayResp.day)
    /\ [][(/\ todayResp.op = "complete"
           /\ todayResp.status = 200
           /\ \E k \in DOMAIN todayResp.body : todayResp.body[k].id = todayResp.activityId
           /\ todayResp'.op = "today"
           /\ todayResp'.uid = todayResp.uid
           /\ todayResp'.day = todayResp.day)
          => Returned(todayResp'.body, todayResp.activityId)]_vars

=============================================================================
